---- MODULE Spec2Model ----
(***************************************************************************)
(* chipmunk: an LSM-tree key-value store (src/src/lsm.rs) over a segmented, *)
(* buffered write-ahead log (src/src/wal.rs) and a memtable that is flushed *)
(* to SSTable files (src/src/memtable.rs).                                  *)
(*                                                                         *)
(* Option<T> is modelled as a sequence: <<>> is None and <<x>> is Some(x).  *)
(* A directory of files is a function from the ids of the files that exist  *)
(* to their contents.                                                       *)
(***************************************************************************)
EXTENDS Integers, Sequences, FiniteSets, TLC

\* ---------------------------------------------------------------- bounds
\* Number of calls that change the engine or the directory in one behaviour.
MaxCalls == 4
\* Number of I/O calls that fail in one behaviour.
MaxFaults == 1
\* Number of engine restarts (drop, new, restore) in one behaviour.
MaxRestarts == 1
\* Number of bits of the membership filter.
BloomBits == 5
\* Length of the L2 id list up to which force_compaction is called directly.
MaxCompactions == 4

\* ------------------------------------------------- configuration and data
\* WalConfig.max_size: the WAL is rotated at this size.
WalMaxSize == 35
\* WalConfig.buffer_size: the buffer is written out at this size.
WalBufferSize == 20
\* WalConfig.id: the id of the first segment.
WalStartId == 0
\* MemtableConfig.max_size: the memtable is flushed above this size.
MemtableMaxSize == 1
\* MemtableConfig.id: the id of the first memtable.
MemtableStartId == 0
\* The compaction trigger of insert.
L2CompactionThreshold == 3
\* Size of the marker byte and of a length field of a WAL frame.
MarkerLen == 1
LenFieldLen == 8

\* Keys and values are byte strings.
Keys == {<<1>>, <<2>>}
Values == {<<7>>, <<8, 9>>}

None == <<>>
Some(x) == <<x>>

\* WalEntry::Put and WalEntry::Delete.
Put(k, v) == [type |-> "Put", key |-> k, value |-> v]
Delete(k) == [type |-> "Delete", key |-> k]

\* The entries a caller can append.
Entries == {Put(k, v) : k \in Keys, v \in Values} \cup {Delete(k) : k \in Keys}

\* Entries with empty keys and values and with bytes equal to the markers.
CodecKeys == {<<>>, <<1>>}
CodecValues == {<<>>, <<0>>, <<1, 0>>}
CodecEntries ==
  {Put(k, v) : k \in CodecKeys, v \in CodecValues}
    \cup {Delete(k) : k \in CodecKeys}

\* Keys of a memtable used alone: the empty key, and keys that are prefixes
\* of one another.
TreeKeys == {<<>>, <<1>>, <<1, 0>>, <<2>>}
TreeValues == {<<>>, <<0, 1>>}

\* The tasks that serve requests at the same time.
Tasks == {"t1", "t2", "t3"}

\* Keys of the paths of GET and DELETE requests, and bodies of POST requests:
\* with one '=', with two, with none, with an empty key or value.
HttpKeys == {<<1>>}
HttpBodies ==
  {<<1, 61, 7>>, <<1, 61, 8, 61, 9>>, <<2, 61>>, <<61, 7>>, <<1, 7>>}

\* The I/O call of a handler that fails, if any: the write of the buffer to
\* the segment, the fsync or the open of rotate, the removal of a file. At most
\* one kind fails per call.
Failures == {"none", "write", "fsync", "open", "remove"}
AppendFailures == {"none", "write"}
RotateFailures == {"none", "fsync", "open"}
RemoveFailures == {"none", "remove"}

\* ---------------------------------------------------------------- helpers
\* Number of bytes append writes for an entry.
EncLen(e) ==
  IF e.type = "Put"
  THEN MarkerLen + LenFieldLen + Len(e.key) + LenFieldLen + Len(e.value)
  ELSE MarkerLen + LenFieldLen + Len(e.key)

RECURSIVE BufLen(_)
\* buffer.len(): the bytes of the entries held in the buffer.
BufLen(buf) == IF buf = <<>> THEN 0 ELSE EncLen(Head(buf)) + BufLen(Tail(buf))

\* The function f without x in its domain (a removed file).
Without(f, x) == [y \in (DOMAIN f) \ {x} |-> f[y]]
\* The function f with x mapped to v (a created or overwritten file).
With(f, x, v) == [y \in (DOMAIN f) \cup {x} |-> IF y = x THEN v ELSE f[y]]
\* A function with an empty domain (an empty directory, an empty map).
Empty == [y \in {} |-> 0]

SeqToSet(s) == {s[i] : i \in 1..Len(s)}

\* ------------------------------------------------------------------- state
\* lsm:      the Lsm struct: wal, memtable, sstables, bloom, l2_id, l2_files
\* disk:     the working directory: wal (segment files), synced (entries of a
\*           segment file covered by an fsync), sst (sstable-<id>), l2 (l2-<id>)
\* last:     the call that returned last and its result
\* acked:    per key, the write acknowledged last (known = FALSE when the last
\*           write on the key returned an error or there was none)
\* restarts: number of restarts so far
\* calls:    number of calls so far that changed the engine or the directory
\* faults:   number of I/O calls so far that were made to fail
\* rot:      a rotate_memtable or force_compaction call of another task that
\*           is between two of its steps
VARIABLES lsm, disk, last, acked, restarts, calls, faults, rot

vars == <<lsm, disk, last, acked, restarts, calls, faults, rot>>

\* -------------------------------------------------------------- WAL frames
\* The marker bytes of a Put and of a Delete frame.
PutMarker == 0
DeleteMarker == 1

\* usize::to_be_bytes of a length below 2^24.
LenBytesBE(n) ==
  <<0, 0, 0, 0, 0, (n \div 65536) % 256, (n \div 256) % 256, n % 256>>

\* usize::to_le_bytes of a length below 2^24: 8 bytes, least significant
\* first.
LenBytes(n) ==
  <<n % 256, (n \div 256) % 256, (n \div 65536) % 256, 0, 0, 0, 0, 0>>

\* u64::from_le_bytes as usize. A length of 2^24 or more is longer than any
\* stream here, so it is reported as 2^24.
FromLenBytes(b) ==
  IF \E i \in 4..8 : b[i] # 0
  THEN 16777216
  ELSE b[1] + 256 * b[2] + 65536 * b[3]

\* The bytes Wal::append writes into the buffer for an entry.
Encode(e) ==
  IF e.type = "Put"
  THEN <<PutMarker>> \o LenBytes(Len(e.key)) \o e.key
         \o LenBytes(Len(e.value)) \o e.value
  ELSE <<DeleteMarker>> \o LenBytes(Len(e.key)) \o e.key

RECURSIVE EncodeAll(_)
\* The bytes of a sequence of entries appended one after the other.
EncodeAll(es) ==
  IF es = <<>> THEN <<>> ELSE Encode(Head(es)) \o EncodeAll(Tail(es))

\* read_entry, one length-prefixed field: read_exact of the 8 length bytes and
\* of that many bytes, each unwrapped (a short read panics).
ReadField(bytes) ==
  IF Len(bytes) < LenFieldLen
  THEN [res |-> "Panic", field |-> <<>>, rest |-> <<>>]
  ELSE LET n == FromLenBytes(SubSeq(bytes, 1, LenFieldLen))
       IN IF Len(bytes) < LenFieldLen + n
          THEN [res |-> "Panic", field |-> <<>>, rest |-> <<>>]
          ELSE [res |-> "Ok",
                field |-> SubSeq(bytes, LenFieldLen + 1, LenFieldLen + n),
                rest |-> SubSeq(bytes, LenFieldLen + n + 1, Len(bytes))]

\* read_entry: the frame after its marker byte. An unknown marker panics.
ReadEntry(bytes, marker) ==
  IF marker = PutMarker
  THEN LET k == ReadField(bytes)
           v == ReadField(k.rest)
       IN IF k.res # "Ok" \/ v.res # "Ok"
          THEN [res |-> "Panic", entry |-> Delete(<<>>), rest |-> <<>>]
          ELSE [res |-> "Ok", entry |-> Put(k.field, v.field), rest |-> v.rest]
  ELSE IF marker = DeleteMarker
       THEN LET k == ReadField(bytes)
            IN IF k.res # "Ok"
               THEN [res |-> "Panic", entry |-> Delete(<<>>), rest |-> <<>>]
               ELSE [res |-> "Ok", entry |-> Delete(k.field), rest |-> k.rest]
       ELSE [res |-> "Panic", entry |-> Delete(<<>>), rest |-> <<>>]

RECURSIVE DecodeStream(_)
\* The read loop of Wal::restore over one segment's bytes: read the marker
\* byte, stop at end of stream, else read_entry. A panic aborts the process,
\* whatever was read before.
DecodeStream(bytes) ==
  IF bytes = <<>>
  THEN [res |-> "Ok", entries |-> <<>>]
  ELSE LET r == ReadEntry(Tail(bytes), Head(bytes))
       IN IF r.res # "Ok"
          THEN [res |-> "Panic", entries |-> <<>>]
          ELSE LET more == DecodeStream(r.rest)
               IN IF more.res # "Ok"
                  THEN more
                  ELSE [res |-> "Ok", entries |-> <<r.entry>> \o more.entries]

\* ------------------------------------------------------------- Segment, Wal
\* Segment::try_new: open <id>.wal with create(true).append(true); an existing
\* file is opened as it is, a missing one is created empty.
SegmentTryNew(id, d) ==
  IF id \in DOMAIN d.wal
  THEN d
  ELSE [d EXCEPT !.wal = With(d.wal, id, <<>>), !.synced = With(d.synced, id, 0)]

\* Wal::new
WalNew(id) ==
  [segment |-> id, linked |-> TRUE, current_size |-> 0, buffer |-> <<>>,
   closed_segments |-> <<>>]

\* A write that puts the buffer before what the file holds.
WriteBufferFront(w, d) ==
  IF w.linked
  THEN [d EXCEPT !.wal = [@ EXCEPT ![w.segment] = w.buffer \o @]]
  ELSE d

\* Writing the buffer to the file behind the active segment's handle. The
\* handle of a file that was removed writes to an unlinked file.
WriteBuffer(w, d) ==
  IF w.linked
  THEN [d EXCEPT !.wal = [@ EXCEPT ![w.segment] = @ \o w.buffer]]
  ELSE d

\* Wal::maybe_flush_buffer
MaybeFlushBuffer(w, d, force, fail) ==
  IF BufLen(w.buffer) >= WalBufferSize \/ force
  THEN IF fail = "write"
       THEN [res |-> "WalAppend", wal |-> w, disk |-> d]
       ELSE [res |-> "Ok", wal |-> [w EXCEPT !.buffer = <<>>],
             disk |-> WriteBuffer(w, d)]
  ELSE [res |-> "Ok", wal |-> w, disk |-> d]

\* Wal::append
WalAppend(w, d, e, fail) ==
  LET w1 == [w EXCEPT !.buffer = Append(@, e),
                      !.current_size = @ + EncLen(e)]
  IN MaybeFlushBuffer(w1, d, FALSE, fail)

\* Segment::flush: sync_all on the active segment's file.
SegmentFlush(w, d) ==
  IF w.linked
  THEN [d EXCEPT !.synced = [@ EXCEPT ![w.segment] = Len(d.wal[w.segment])]]
  ELSE d

\* Wal::rotate without the reset of current_size.
WalRotateKeepSize(w, d, fail) ==
  IF fail = "fsync"
  THEN [res |-> "SegmentFsync", wal |-> w, disk |-> d]
  ELSE LET d1 == SegmentFlush(w, d)
           current_id == w.segment
           w1 == [w EXCEPT !.closed_segments = Append(@, current_id)]
       IN IF fail = "open"
          THEN [res |-> "SegmentOpen", wal |-> w1, disk |-> d1]
          ELSE [res |-> "Ok",
                wal |-> [w1 EXCEPT !.segment = current_id + 1, !.linked = TRUE],
                disk |-> SegmentTryNew(current_id + 1, d1)]

\* Wal::rotate
WalRotate(w, d, fail) ==
  IF fail = "fsync"
  THEN [res |-> "SegmentFsync", wal |-> w, disk |-> d]
  ELSE LET d1 == SegmentFlush(w, d)
           current_id == w.segment
           w1 == [w EXCEPT !.closed_segments = Append(@, current_id),
                           !.current_size = 0]
       IN IF fail = "open"
          THEN [res |-> "SegmentOpen", wal |-> w1, disk |-> d1]
          ELSE [res |-> "Ok",
                wal |-> [w1 EXCEPT !.segment = current_id + 1, !.linked = TRUE],
                disk |-> SegmentTryNew(current_id + 1, d1)]

RECURSIVE RemoveFiles(_, _, _, _)
\* The loop of remove_closed_segments over the ids in segs: remove_file on
\* each, stopping at the first that fails (the file is missing, or the I/O
\* call fails on the first file). n counts the files removed.
RemoveFiles(segs, w, d, fail) ==
  IF segs = <<>>
  THEN [res |-> "Ok", wal |-> w, disk |-> d, n |-> 0]
  ELSE LET s == Head(segs)
       IN IF s \notin DOMAIN d.wal \/ fail = "remove"
          THEN [res |-> "SegmentDelete", wal |-> w, disk |-> d, n |-> 0]
          ELSE LET w1 == IF s = w.segment THEN [w EXCEPT !.linked = FALSE] ELSE w
                   d1 == [d EXCEPT !.wal = Without(@, s),
                                   !.synced = Without(@, s)]
                   r == RemoveFiles(Tail(segs), w1, d1, "none")
               IN [r EXCEPT !.n = @ + 1]

\* Wal::remove_closed_segments: remove every closed segment's file, then
\* clear_segments; returns the number of files removed.
WalRemoveClosedSegments(w, d, fail) ==
  LET r == RemoveFiles(w.closed_segments, w, d, fail)
  IN IF r.res = "Ok"
     THEN [r EXCEPT !.wal = [@ EXCEPT !.closed_segments = <<>>]]
     ELSE r

\* ---------------------------------------------------------------- Memtable
\* Memtable::new
MemtableNew(id) == [id |-> id, tree |-> Empty, approximate_size |-> 0]

\* Memtable::insert
MemtableInsert(m, k, v) ==
  [m EXCEPT !.approximate_size = @ + Len(v), !.tree = With(@, k, Some(v))]

\* Memtable::delete: a tombstone; approximate_size is left alone.
MemtableDelete(m, k) == [m EXCEPT !.tree = With(@, k, None)]

\* BTreeMap::get on a tree: None (absent), Some(None) (tombstone) or
\* Some(Some(v)).
TreeGet(tree, k) == IF k \in DOMAIN tree THEN Some(tree[k]) ELSE None

\* Memtable::get: Some(v) for a live value, None for a tombstone and for an
\* absent key alike.
MemtableGet(m, k) ==
  IF k \in DOMAIN m.tree /\ m.tree[k] # None THEN m.tree[k] ELSE None

\* Memtable::flush, first half (lines 88-93): the tree is serialized (the
\* bytes are the tree as it is now), replaced by an empty one, and the size is
\* reset.
MemtableSwap(m) == [m EXCEPT !.tree = Empty, !.approximate_size = 0]

\* Memtable::flush, second half (lines 95-103): the serialized tree is
\* written to sstable-<id>, then the id advances.
MemtableWrite(m, d, data) ==
  [memtable |-> [m EXCEPT !.id = @ + 1],
   disk |-> [d EXCEPT !.sst = With(@, m.id, data)]]

\* Memtable::flush
MemtableFlush(m, d) == MemtableWrite(MemtableSwap(m), d, m.tree)

\* ----------------------------------------------------------- SSTable files
RECURSIVE LexLess(_, _)
\* The order of Bytes keys in a BTreeMap: lexicographic on the bytes.
LexLess(a, b) ==
  IF a = <<>> THEN b # <<>>
  ELSE IF b = <<>> THEN FALSE
  ELSE Head(a) < Head(b) \/ (Head(a) = Head(b) /\ LexLess(Tail(a), Tail(b)))

RECURSIVE SortedKeys(_)
\* The keys of a BTreeMap in iteration order.
SortedKeys(S) ==
  IF S = {}
  THEN <<>>
  ELSE LET m == CHOOSE x \in S : \A y \in S \ {x} : LexLess(x, y)
       IN <<m>> \o SortedKeys(S \ {m})

\* bincode of a Bytes: the length as a little-endian u64, then the bytes.
SerializeBytes(b) == LenBytes(Len(b)) \o b

\* bincode of an Option<Bytes> that writes None as an empty Bytes.
SerializeOptionUntagged(r) ==
  <<1>> \o SerializeBytes(IF r = None THEN <<>> ELSE r[1])

\* bincode of an Option<Bytes>: tag 0 for None, tag 1 and the Bytes for Some.
SerializeOption(r) ==
  IF r = None THEN <<0>> ELSE <<1>> \o SerializeBytes(r[1])

RECURSIVE SerializePairs(_, _)
\* bincode of the entries of a map, in the order keys gives.
SerializePairs(keys, tree) ==
  IF keys = <<>>
  THEN <<>>
  ELSE SerializeBytes(Head(keys)) \o SerializeOption(tree[Head(keys)])
         \o SerializePairs(Tail(keys), tree)

\* bincode::serialize(&self.tree) in Memtable::flush: the number of entries
\* as a little-endian u64, then the entries in the map's order.
Serialize(tree) ==
  LenBytes(Cardinality(DOMAIN tree))
    \o SerializePairs(SortedKeys(DOMAIN tree), tree)

\* bincode of an Option<Bytes>, read back. An unknown tag or a short read is
\* an Err, which Memtable::load unwraps.
DeserializeOption(bytes) ==
  IF bytes = <<>>
  THEN [res |-> "Panic", val |-> None, rest |-> <<>>]
  ELSE IF Head(bytes) = 0
       THEN [res |-> "Ok", val |-> None, rest |-> Tail(bytes)]
       ELSE IF Head(bytes) = 1
            THEN LET b == ReadField(Tail(bytes))
                 IN [res |-> b.res, val |-> Some(b.field), rest |-> b.rest]
            ELSE [res |-> "Panic", val |-> None, rest |-> <<>>]

RECURSIVE DeserializePairs(_, _, _, _)
\* bincode of n map entries, read back and inserted into tree one by one;
\* keys is the order in which the keys were read.
DeserializePairs(n, bytes, tree, keys) ==
  IF n = 0
  THEN [res |-> "Ok", tree |-> tree, keys |-> keys]
  ELSE LET k == ReadField(bytes)
           v == DeserializeOption(k.rest)
       IN IF k.res # "Ok" \/ v.res # "Ok"
          THEN [res |-> "Panic", tree |-> Empty, keys |-> <<>>]
          ELSE DeserializePairs(n - 1, v.rest, With(tree, k.field, v.val),
                                Append(keys, k.field))

\* bincode::deserialize in Memtable::load.
Deserialize(bytes) ==
  IF Len(bytes) < LenFieldLen
  THEN [res |-> "Panic", tree |-> Empty, keys |-> <<>>]
  ELSE DeserializePairs(FromLenBytes(SubSeq(bytes, 1, LenFieldLen)),
                        SubSeq(bytes, LenFieldLen + 1, Len(bytes)),
                        Empty, <<>>)

\* ------------------------------------------------------------------ filter
RECURSIVE SumBytes(_)
SumBytes(k) == IF k = <<>> THEN 0 ELSE Head(k) + SumBytes(Tail(k))

\* The two hash functions of BloomFilter::new(10000, 2), as bit positions.
BloomHash1(k) == SumBytes(k) % BloomBits
BloomHash2(k) == (3 * SumBytes(k) + Len(k)) % BloomBits

\* An insertion into the filter that sets the bit of the first hash only.
BloomInsertFirst(bloom, k) == bloom \cup {BloomHash1(k)}

\* Lsm::bloom_insert
BloomInsert(bloom, k) == bloom \cup {BloomHash1(k), BloomHash2(k)}

\* Lsm::check
BloomCheck(bloom, k) == {BloomHash1(k), BloomHash2(k)} \subseteq bloom

\* --------------------------------------------------------------------- Lsm
\* Lsm::new
LsmNew(wal_id, mem_id) ==
  [wal |-> WalNew(wal_id), memtable |-> MemtableNew(mem_id), sstables |-> <<>>,
   bloom |-> {}, l2_id |-> 0, l2_files |-> <<>>]

\* Lsm::rotate_memtable
RotateMemtable(l, d) ==
  LET f == MemtableFlush(l.memtable, d)
  IN [lsm |-> [l EXCEPT !.sstables = Append(@, l.memtable.id),
                        !.memtable = f.memtable],
      disk |-> f.disk]

\* Lsm::remove_closed_segments: remove every closed segment's file, then
\* clear_segments.
LsmRemoveClosedSegments(l, d, fail) ==
  LET r == RemoveFiles(l.wal.closed_segments, l.wal, d, fail)
  IN [res |-> r.res,
      lsm |-> [l EXCEPT !.wal = IF r.res = "Ok"
                                 THEN [r.wal EXCEPT !.closed_segments = <<>>]
                                 ELSE r.wal],
      disk |-> r.disk]

\* The inner loop of force_compaction over one loaded SSTable: a live value is
\* inserted into l2_tree, a tombstone is skipped.
MergeLive(l2_tree, tree) ==
  [k \in (DOMAIN l2_tree) \cup {x \in DOMAIN tree : tree[x] # None} |->
     IF k \in DOMAIN tree /\ tree[k] # None THEN tree[k][1] ELSE l2_tree[k]]

RECURSIVE CompactL1NewestFirst(_, _, _)
\* The loop of force_compaction run over the L1 ids from the newest to the
\* oldest.
CompactL1NewestFirst(ids, l2_tree, d) ==
  IF ids = <<>>
  THEN [res |-> "Ok", l2_tree |-> l2_tree, disk |-> d]
  ELSE LET id == ids[Len(ids)]
       IN IF id \notin DOMAIN d.sst
          THEN [res |-> "Panic", l2_tree |-> l2_tree, disk |-> d]
          ELSE CompactL1NewestFirst(SubSeq(ids, 1, Len(ids) - 1),
                                    MergeLive(l2_tree, d.sst[id]),
                                    [d EXCEPT !.sst = Without(@, id)])

RECURSIVE CompactL1(_, _, _)
\* The loop of force_compaction over the L1 ids, oldest first: load the
\* SSTable, merge it, remove its file. Loading or removing a missing file
\* panics.
CompactL1(ids, l2_tree, d) ==
  IF ids = <<>>
  THEN [res |-> "Ok", l2_tree |-> l2_tree, disk |-> d]
  ELSE LET id == Head(ids)
       IN IF id \notin DOMAIN d.sst
          THEN [res |-> "Panic", l2_tree |-> l2_tree, disk |-> d]
          ELSE CompactL1(Tail(ids), MergeLive(l2_tree, d.sst[id]),
                         [d EXCEPT !.sst = Without(@, id)])

\* The second half of force_compaction with the L2 id list replaced by the
\* new id instead of extended.
WriteL2Replace(l, d, l2_tree) ==
  [lsm |-> [l EXCEPT !.l2_id = @ + 1, !.l2_files = <<l.l2_id>>],
   disk |-> [d EXCEPT !.l2 = With(@, l.l2_id, l2_tree)]]

\* The second half of force_compaction: allocate the L2 id, write l2-<id> and
\* record the id.
WriteL2(l, d, l2_tree) ==
  [lsm |-> [l EXCEPT !.l2_id = @ + 1, !.l2_files = Append(@, l.l2_id)],
   disk |-> [d EXCEPT !.l2 = With(@, l.l2_id, l2_tree)]]

\* Lsm::force_compaction
ForceCompaction(l, d) ==
  LET c == CompactL1(l.sstables, Empty, d)
  IN IF c.res = "Panic"
     THEN [res |-> "Panic", lsm |-> l, disk |-> c.disk]
     ELSE LET w == WriteL2([l EXCEPT !.sstables = <<>>], c.disk, c.l2_tree)
          IN [res |-> "Ok", lsm |-> w.lsm, disk |-> w.disk]

RECURSIVE SearchSSTables(_, _, _)
\* The loop of get over the L1 ids, newest first (ids is the list, searched
\* from its end): a live value ends the search, a tombstone and a miss both
\* continue with the next older table. Loading a missing file panics.
SearchSSTables(ids, d, k) ==
  IF ids = <<>>
  THEN [res |-> "Ok", val |-> None]
  ELSE LET id == ids[Len(ids)]
       IN IF id \notin DOMAIN d.sst
          THEN [res |-> "Panic", val |-> None]
          ELSE LET got == TreeGet(d.sst[id], k)
               IN IF got # None /\ got[1] # None
                  THEN [res |-> "Ok", val |-> got[1]]
                  ELSE SearchSSTables(SubSeq(ids, 1, Len(ids) - 1), d, k)

\* Lsm::get without the search of the L1 SSTables.
LsmGetMemtableOnly(l, d, k) ==
  IF ~BloomCheck(l.bloom, k)
  THEN [res |-> "Ok", val |-> None]
  ELSE [res |-> "Ok", val |-> MemtableGet(l.memtable, k)]

\* Lsm::get
LsmGet(l, d, k) ==
  IF ~BloomCheck(l.bloom, k)
  THEN [res |-> "Ok", val |-> None]
  ELSE IF MemtableGet(l.memtable, k) # None
       THEN [res |-> "Ok", val |-> MemtableGet(l.memtable, k)]
       ELSE SearchSSTables(l.sstables, d, k)

\* Lsm::insert from the memtable write on, with the memtable rotated as soon
\* as its size reaches max_size.
InsertApplyAtMax(l, d, k, v, fail) ==
  LET l1 == [l EXCEPT !.bloom = BloomInsert(@, k),
                      !.memtable = MemtableInsert(@, k, v)]
      rot1 == RotateMemtable(l1, d)
      rem == LsmRemoveClosedSegments(rot1.lsm, rot1.disk, fail)
      s2 == IF l1.memtable.approximate_size >= MemtableMaxSize
            THEN rem
            ELSE [res |-> "Ok", lsm |-> l1, disk |-> d]
  IN IF s2.res # "Ok"
     THEN s2
     ELSE IF Len(s2.lsm.l2_files) > L2CompactionThreshold
          THEN ForceCompaction(s2.lsm, s2.disk)
          ELSE s2

\* Lsm::insert from the memtable write on, with the compaction run as soon as
\* the L2 id list has L2_COMPACTION_THRESHOLD entries.
InsertApplyAtThreshold(l, d, k, v, fail) ==
  LET l1 == [l EXCEPT !.bloom = BloomInsert(@, k),
                      !.memtable = MemtableInsert(@, k, v)]
      rot1 == RotateMemtable(l1, d)
      rem == LsmRemoveClosedSegments(rot1.lsm, rot1.disk, fail)
      s2 == IF l1.memtable.approximate_size > MemtableMaxSize
            THEN rem
            ELSE [res |-> "Ok", lsm |-> l1, disk |-> d]
  IN IF s2.res # "Ok"
     THEN s2
     ELSE IF Len(s2.lsm.l2_files) >= L2CompactionThreshold
          THEN ForceCompaction(s2.lsm, s2.disk)
          ELSE s2

\* Lsm::insert, from the memtable write on (lines 84-103).
InsertApply(l, d, k, v, fail) ==
  LET l1 == [l EXCEPT !.bloom = BloomInsert(@, k),
                      !.memtable = MemtableInsert(@, k, v)]
      rot1 == RotateMemtable(l1, d)
      rem == LsmRemoveClosedSegments(rot1.lsm, rot1.disk, fail)
      s2 == IF l1.memtable.approximate_size > MemtableMaxSize
            THEN rem
            ELSE [res |-> "Ok", lsm |-> l1, disk |-> d]
  IN IF s2.res # "Ok"
     THEN s2
     ELSE IF Len(s2.lsm.l2_files) > L2CompactionThreshold
          THEN ForceCompaction(s2.lsm, s2.disk)
          ELSE s2

\* Lsm::insert with the WAL threshold tested on the size before the append.
LsmInsertRotateBefore(l, d, k, v, fail) ==
  LET a == WalAppend(l.wal, d, Put(k, v), fail)
      r == IF l.wal.current_size >= WalMaxSize
           THEN WalRotate(a.wal, a.disk, fail)
           ELSE a
  IN IF a.res # "Ok"
     THEN [res |-> a.res, lsm |-> [l EXCEPT !.wal = a.wal], disk |-> a.disk]
     ELSE IF r.res # "Ok"
          THEN [res |-> r.res, lsm |-> [l EXCEPT !.wal = r.wal], disk |-> r.disk]
          ELSE InsertApply([l EXCEPT !.wal = r.wal], r.disk, k, v, fail)

\* Lsm::insert
LsmInsert(l, d, k, v, fail) ==
  LET a == WalAppend(l.wal, d, Put(k, v), fail)
      r == IF a.wal.current_size >= WalMaxSize
           THEN WalRotate(a.wal, a.disk, fail)
           ELSE a
  IN IF a.res # "Ok"
     THEN [res |-> a.res, lsm |-> [l EXCEPT !.wal = a.wal], disk |-> a.disk]
     ELSE IF r.res # "Ok"
          THEN [res |-> r.res, lsm |-> [l EXCEPT !.wal = r.wal], disk |-> r.disk]
          ELSE InsertApply([l EXCEPT !.wal = r.wal], r.disk, k, v, fail)

\* Lsm::delete with the WAL rotated at max_size as Lsm::insert does.
LsmDeleteRotating(l, d, k, fail) ==
  LET a == WalAppend(l.wal, d, Delete(k), fail)
      r == IF a.wal.current_size >= WalMaxSize
           THEN WalRotate(a.wal, a.disk, fail)
           ELSE a
  IN IF a.res # "Ok"
     THEN [res |-> a.res, lsm |-> [l EXCEPT !.wal = a.wal], disk |-> a.disk]
     ELSE IF r.res # "Ok"
          THEN [res |-> r.res, lsm |-> [l EXCEPT !.wal = r.wal], disk |-> r.disk]
          ELSE [res |-> "Ok",
                lsm |-> [l EXCEPT !.wal = r.wal,
                                  !.memtable = MemtableDelete(@, k)],
                disk |-> r.disk]

\* Lsm::delete
LsmDelete(l, d, k, fail) ==
  LET a == WalAppend(l.wal, d, Delete(k), fail)
  IN IF a.res # "Ok"
     THEN [res |-> a.res, lsm |-> [l EXCEPT !.wal = a.wal], disk |-> a.disk]
     ELSE [res |-> "Ok",
           lsm |-> [l EXCEPT !.wal = a.wal,
                             !.memtable = MemtableDelete(@, k)],
           disk |-> a.disk]

\* -------------------------------------------------------------------- HTTP
\* The status codes the handlers answer with.
StatusOk == 200
StatusNoContent == 204
StatusBadRequest == 400
StatusNotFound == 404
StatusInternalServerError == 500
\* No response: the handler panicked.
NoResponse == 0

\* The byte '='.
EqualsSign == 61

\* A response: its status and its body, a text or bytes.
Response(status, text, bytes) ==
  [status |-> status, text |-> text, bytes |-> bytes]

RECURSIVE SplitAt(_, _, _)
\* The search of split_once: key is what was read before the first byte sep.
SplitAt(req, sep, key) ==
  IF req = <<>>
  THEN None
  ELSE IF Head(req) = sep
       THEN Some([key |-> key, value |-> Tail(req)])
       ELSE SplitAt(Tail(req), sep, Append(key, Head(req)))

RECURSIVE SplitAtLast(_, _, _)
\* A search that splits at the last byte sep.
SplitAtLast(req, sep, key) ==
  IF req = <<>>
  THEN None
  ELSE IF req[Len(req)] = sep
       THEN Some([key |-> SubSeq(req, 1, Len(req) - 1), value |-> key])
       ELSE SplitAtLast(SubSeq(req, 1, Len(req) - 1), sep,
                        <<req[Len(req)]>> \o key)

\* A split of req at its last '='.
SplitOnceLast(req) == SplitAtLast(req, EqualsSign, <<>>)

\* req.split_once("=")
SplitOnce(req) == SplitAt(req, EqualsSign, <<>>)

\* ChipmunkError::as_status_code: every kind is masked.
AsStatusCode(e) == StatusInternalServerError

\* get_key_handler
GetKeyHandler(l, d, key) ==
  LET g == LsmGet(l, d, key)
  IN IF g.res # "Ok"
     THEN [res |-> g.res, rsp |-> Response(NoResponse, "", <<>>)]
     ELSE IF g.val # None
          THEN [res |-> "Ok", rsp |-> Response(StatusOk, "", g.val[1])]
          ELSE [res |-> "Ok", rsp |-> Response(StatusNotFound, "", <<>>)]

\* delete_key_handler
DeleteKeyHandler(l, d, key, fail) ==
  LET r == LsmDelete(l, d, key, fail)
  IN [res |-> r.res, lsm |-> r.lsm, disk |-> r.disk,
      rsp |-> IF r.res = "Ok"
              THEN Response(StatusNoContent, "", <<>>)
              ELSE Response(AsStatusCode(r.res), "", <<>>)]

\* add_kv_handler
AddKvHandler(l, d, req, fail) ==
  LET kv == SplitOnce(req)
      r == LsmInsert(l, d, kv[1].key, kv[1].value, fail)
  IN IF kv = None
     THEN [res |-> "Ok", key |-> None, val |-> None, lsm |-> l, disk |-> d,
           rsp |-> Response(StatusBadRequest,
                            "Must provide key=value format", <<>>)]
     ELSE [res |-> r.res, key |-> Some(kv[1].key), val |-> Some(kv[1].value),
           lsm |-> r.lsm, disk |-> r.disk,
           rsp |-> IF r.res = "Ok"
                   THEN Response(StatusNoContent, "", <<>>)
                   ELSE Response(AsStatusCode(r.res), "Cannot insert '{key}'",
                                 kv[1].key)]

\* ----------------------------------------------------------------- restore
RECURSIVE AppendAll(_, _, _)
\* The loop of Wal::restore that appends the entries read from one segment.
AppendAll(entries, w, d) ==
  IF entries = <<>>
  THEN [wal |-> w, disk |-> d]
  ELSE LET a == WalAppend(w, d, Head(entries), "none")
       IN AppendAll(Tail(entries), a.wal, a.disk)

RECURSIVE WalRestore(_, _, _)
\* Wal::restore: for every segment file of the directory, in the order the
\* directory listing gives them, skip it when it is empty, else read all its
\* entries and append each of them to this Wal.
WalRestore(order, w, d) ==
  IF order = <<>>
  THEN [wal |-> w, disk |-> d]
  ELSE LET id == Head(order)
       IN IF d.wal[id] = <<>>
          THEN WalRestore(Tail(order), w, d)
          ELSE LET a == AppendAll(d.wal[id], w, d)
               IN WalRestore(Tail(order), a.wal, a.disk)

\* The bytes of the file of segment id when torn.bytes, what a write that was
\* cut short left of it, follow the first torn.at entries of segment torn.id.
FileBytes(d, id, torn) ==
  IF id = torn.id
  THEN EncodeAll(SubSeq(d.wal[id], 1, torn.at)) \o torn.bytes
         \o EncodeAll(SubSeq(d.wal[id], torn.at + 1, Len(d.wal[id])))
  ELSE EncodeAll(d.wal[id])

RECURSIVE WalRestoreBytes(_, _, _, _)
\* Wal::restore reading the bytes of the segment files: a file of size 0 is
\* skipped; the read loop decodes the file up to its end, and a read_entry
\* that panics ends the restore before anything of that file is appended.
WalRestoreBytes(order, w, d, torn) ==
  IF order = <<>>
  THEN [res |-> "Ok", wal |-> w, disk |-> d]
  ELSE LET id == Head(order)
           s == DecodeStream(FileBytes(d, id, torn))
       IN IF FileBytes(d, id, torn) = <<>>
          THEN WalRestoreBytes(Tail(order), w, d, torn)
          ELSE IF s.res # "Ok"
               THEN [res |-> s.res, wal |-> w, disk |-> d]
               ELSE LET a == AppendAll(s.entries, w, d)
                    IN WalRestoreBytes(Tail(order), a.wal, a.disk, torn)

\* Wal::lines: the active segment's file, read by its name; its entries are
\* the lines Lsm::restore decodes.
WalLines(w, d) == d.wal[w.segment]

\* Lsm::restore with its replay loop run from the last line to the first.
RECURSIVE ReplayBackwards(_, _)
ReplayBackwards(entries, m) ==
  IF entries = <<>>
  THEN m
  ELSE LET e == entries[Len(entries)]
       IN ReplayBackwards(SubSeq(entries, 1, Len(entries) - 1),
                          IF e.type = "Put"
                          THEN MemtableInsert(m, e.key, e.value)
                          ELSE MemtableDelete(m, e.key))

RECURSIVE Replay(_, _)
\* The replay loop of Lsm::restore: Put is inserted, Delete is a tombstone.
Replay(entries, m) ==
  IF entries = <<>>
  THEN m
  ELSE LET e == Head(entries)
       IN Replay(Tail(entries),
                 IF e.type = "Put"
                 THEN MemtableInsert(m, e.key, e.value)
                 ELSE MemtableDelete(m, e.key))

\* The filter loop of Lsm::restore: every key of the memtable whose value is
\* not a tombstone is inserted.
RestoreBloom(bloom, tree) ==
  bloom \cup UNION {{BloomHash1(k), BloomHash2(k)} :
                      k \in {x \in DOMAIN tree : tree[x] # None}}

\* Lsm::restore on an engine whose WAL size is 0 and whose memtable is empty
\* (anything else fails its assertions).
LsmRestore(l, d, order) ==
  LET r == WalRestore(order, l.wal, d)
      m == Replay(WalLines(r.wal, r.disk), l.memtable)
  IN [lsm |-> [l EXCEPT !.wal = r.wal, !.memtable = m,
                        !.bloom = RestoreBloom(@, m.tree)],
      disk |-> r.disk]

RECURSIVE WalRestoreRead(_, _, _)
\* Wal::restore together with the entries its read loops pushed, in the order
\* they were read.
WalRestoreRead(order, w, d) ==
  IF order = <<>>
  THEN [read |-> <<>>, wal |-> w, disk |-> d]
  ELSE LET id == Head(order)
       IN IF d.wal[id] = <<>>
          THEN WalRestoreRead(Tail(order), w, d)
          ELSE LET a == AppendAll(d.wal[id], w, d)
                   r == WalRestoreRead(Tail(order), a.wal, a.disk)
               IN [r EXCEPT !.read = d.wal[id] \o @]

\* Drop for Wal: maybe_flush_buffer(true).
WalDrop(w, d) == MaybeFlushBuffer(w, d, TRUE, "none")

\* The first assertion of Lsm::restore alone: wal.size() is 0.
RestoreAssertsWalOnly(l) == l.wal.current_size = 0

\* The assertions of Lsm::restore: wal.size(), memtable.len() and
\* memtable.size() are all 0.
RestoreAsserts(l) ==
  /\ l.wal.current_size = 0
  /\ Cardinality(DOMAIN l.memtable.tree) = 0
  /\ l.memtable.approximate_size = 0

\* Lsm::restore called on any engine: a failed assertion panics before
\* Wal::restore is called.
LsmRestoreCall(l, d, order) ==
  IF ~RestoreAsserts(l)
  THEN [res |-> "Panic", lsm |-> l, disk |-> d]
  ELSE [res |-> "Ok", lsm |-> LsmRestore(l, d, order).lsm,
        disk |-> LsmRestore(l, d, order).disk]

\* Chipmunk::should_restore: some file named *wal* is not empty.
ShouldRestore(d) == \E id \in DOMAIN d.wal : d.wal[id] # <<>>

\* Drop for Lsm: the buffer is force-flushed.
LsmDrop(l, d) == MaybeFlushBuffer(l.wal, d, TRUE, "none").disk

RECURSIVE DirOrders(_)
\* The orders in which read_dir may list the files of S: any order.
DirOrders(S) ==
  IF S = {}
  THEN {<<>>}
  ELSE UNION {{<<x>> \o o : o \in DirOrders(S \ {x})} : x \in S}

\* ------------------------------------------------------------------ actions
Idle == [pc |-> "idle", data |-> Empty]

Result(op, key, val, res, n) ==
  [op |-> op, key |-> key, val |-> val, res |-> res, n |-> n]

Acked(val) == [known |-> TRUE, val |-> val]
Unknown == [known |-> FALSE, val |-> None]

\* The call counter after a call: calls that leave the engine and the
\* directory as they were are not counted.
Counted ==
  /\ calls < MaxCalls
  /\ calls' = IF lsm' = lsm /\ disk' = disk THEN calls ELSE calls + 1

\* The fault counter after a call made with failure fail that returned res:
\* the failure is counted when it made the call fail.
Faulted(fail, res) ==
  LET hit == fail # "none" /\ res # "Ok"
  IN /\ hit => faults < MaxFaults
     /\ faults' = IF hit THEN faults + 1 ELSE faults

\* The failures of F a call may still be given.
Left(F) == IF faults < MaxFaults THEN F ELSE {"none"}

Init ==
  /\ lsm = LsmNew(WalStartId, MemtableStartId)
  /\ disk = [wal |-> With(Empty, WalStartId, <<>>),
             synced |-> With(Empty, WalStartId, 0),
             sst |-> Empty, l2 |-> Empty]
  /\ last = Result("new", None, None, "Ok", 0)
  /\ acked = [k \in Keys |-> Unknown]
  /\ restarts = 0
  /\ calls = 0
  /\ faults = 0
  /\ rot = Idle

\* A call of Lsm::insert.
Insert(k, v, fail) ==
  /\ rot.pc = "idle"
  /\ \E r \in {LsmInsert(lsm, disk, k, v, fail)} :
        /\ lsm' = r.lsm
        /\ disk' = r.disk
        /\ Faulted(fail, r.res)
        /\ last' = Result("insert", Some(k), Some(v), r.res, 0)
        /\ acked' = [acked EXCEPT
                       ![k] = IF r.res = "Ok" THEN Acked(Some(v)) ELSE Unknown]
  /\ Counted
  /\ UNCHANGED <<restarts, rot>>

\* A call of Lsm::delete.
DeleteKey(k, fail) ==
  /\ rot.pc = "idle"
  /\ \E r \in {LsmDelete(lsm, disk, k, fail)} :
        /\ lsm' = r.lsm
        /\ disk' = r.disk
        /\ Faulted(fail, r.res)
        /\ last' = Result("delete", Some(k), None, r.res, 0)
        /\ acked' = [acked EXCEPT
                       ![k] = IF r.res = "Ok" THEN Acked(None) ELSE Unknown]
  /\ Counted
  /\ UNCHANGED <<restarts, rot>>

\* A call of Lsm::get, by any task: it returns (or panics) and changes
\* nothing.
Get(k) ==
  /\ LsmGet(lsm, disk, k).res \in {"Ok", "Panic"}
  /\ UNCHANGED vars

\* A call of Lsm::rotate_memtable.
RotateMemtableCall ==
  /\ rot.pc = "idle"
  /\ \E r \in {RotateMemtable(lsm, disk)} :
        lsm' = r.lsm /\ disk' = r.disk
  /\ last' = Result("rotate_memtable", None, None, "Ok", 0)
  /\ Counted
  /\ faults' = faults
  /\ UNCHANGED <<acked, restarts, rot>>

\* A call of Wal::append on the WAL, as a user of the Wal alone makes it.
WalAppendCall(e, fail) ==
  /\ rot.pc = "idle"
  /\ \E r \in {WalAppend(lsm.wal, disk, e, fail)} :
        /\ lsm' = [lsm EXCEPT !.wal = r.wal]
        /\ disk' = r.disk
        /\ Faulted(fail, r.res)
        /\ last' = Result("wal_append", Some(e.key),
                          IF e.type = "Put" THEN Some(e.value) ELSE None,
                          r.res, EncLen(e))
  /\ Counted
  /\ UNCHANGED <<acked, restarts, rot>>

\* What a request and its response leave in last: the request (its body and
\* the key and value taken from it), the engine's result, the response.
HttpResult(op, req, key, val, res, rsp) ==
  [op |-> op, req |-> req, key |-> key, val |-> val, res |-> res,
   n |-> rsp.status, text |-> rsp.text, bytes |-> rsp.bytes]

\* The acknowledged writes after a write of val to key that returned res.
AckedAfter(key, val, res) ==
  IF key \in DOMAIN acked
  THEN [acked EXCEPT ![key] = IF res = "Ok" THEN Acked(val) ELSE Unknown]
  ELSE acked

\* GET /api/v1/{key}
HttpGet(key) ==
  /\ rot.pc = "idle"
  /\ \E r \in {GetKeyHandler(lsm, disk, key)} :
        last' = HttpResult("http_get", <<>>, Some(key), None, r.res, r.rsp)
  /\ UNCHANGED <<lsm, disk, acked, restarts, calls, faults, rot>>

\* DELETE /api/v1/{key}
HttpDelete(key, fail) ==
  /\ rot.pc = "idle"
  /\ \E r \in {DeleteKeyHandler(lsm, disk, key, fail)} :
        /\ lsm' = r.lsm
        /\ disk' = r.disk
        /\ Faulted(fail, r.res)
        /\ last' = HttpResult("http_delete", <<>>, Some(key), None, r.res,
                              r.rsp)
        /\ acked' = AckedAfter(key, None, r.res)
  /\ Counted
  /\ UNCHANGED <<restarts, rot>>

\* POST /api/v1 with body req
HttpPost(req, fail) ==
  /\ rot.pc = "idle"
  /\ \E r \in {AddKvHandler(lsm, disk, req, fail)} :
        /\ lsm' = r.lsm
        /\ disk' = r.disk
        /\ Faulted(fail, r.res)
        /\ last' = HttpResult("http_post", req, r.key, r.val, r.res, r.rsp)
        /\ acked' = IF r.key = None
                     THEN acked
                     ELSE AckedAfter(r.key[1], r.val, r.res)
  /\ Counted
  /\ UNCHANGED <<restarts, rot>>

\* store.write() is granted whatever other tasks hold.
CanWriteShared(holders) == \A t \in DOMAIN holders : holders[t].mode # "write"

\* store.write() on the RwLock<Lsm> is granted: no task holds the lock.
CanWrite(holders) == DOMAIN holders = {}

\* store.read() is granted: no task holds the lock for writing.
CanRead(holders) == \A t \in DOMAIN holders : holders[t].mode # "write"

\* The tasks inside a handler's call on the store, with the lock each holds:
\* rot.data while rot.pc = "held".
Holders == IF rot.pc = "held" THEN rot.data ELSE Empty

\* rot for the tasks of h.
Held(h) == IF DOMAIN h = {} THEN Idle ELSE [pc |-> "held", data |-> h]

\* A handler of task t takes the lock in mode mode for request req (the key
\* of a GET or DELETE, the body of a POST).
Acquire(t, mode, op, req) ==
  /\ rot.pc \in {"idle", "held"}
  /\ t \notin DOMAIN Holders
  /\ IF mode = "write" THEN CanWrite(Holders) ELSE CanRead(Holders)
  /\ rot' = Held(With(Holders, t, [mode |-> mode, op |-> op, req |-> req]))
  /\ UNCHANGED <<lsm, disk, last, acked, restarts, calls, faults>>

\* get_key_handler of task t: store.read().await
GetAcquire(t, key) == Acquire(t, "read", "http_get", key)

\* get_key_handler of task t: get runs, the response is built, the guard is
\* dropped.
GetRelease(t) ==
  /\ t \in DOMAIN Holders
  /\ Holders[t].op = "http_get"
  /\ \E r \in {GetKeyHandler(lsm, disk, Holders[t].req)} :
        last' = HttpResult("http_get", <<>>, Some(Holders[t].req), None,
                           r.res, r.rsp)
  /\ rot' = Held(Without(Holders, t))
  /\ UNCHANGED <<lsm, disk, acked, restarts, calls, faults>>

\* delete_key_handler of task t: store.write().await
DeleteAcquire(t, key) ==
  /\ calls < MaxCalls
  /\ Acquire(t, "write", "http_delete", key)

\* delete_key_handler of task t: delete runs, the guard is dropped.
DeleteRelease(t) ==
  /\ t \in DOMAIN Holders
  /\ Holders[t].op = "http_delete"
  /\ \E r \in {DeleteKeyHandler(lsm, disk, Holders[t].req, "none")} :
        /\ lsm' = r.lsm
        /\ disk' = r.disk
        /\ last' = HttpResult("http_delete", <<>>, Some(Holders[t].req), None,
                              r.res, r.rsp)
        /\ acked' = AckedAfter(Holders[t].req, None, r.res)
  /\ rot' = Held(Without(Holders, t))
  /\ calls' = calls + 1
  /\ UNCHANGED <<restarts, faults>>

\* add_kv_handler of task t: store.write().await, for a body that holds '='.
PostAcquire(t, req) ==
  /\ SplitOnce(req) # None
  /\ calls < MaxCalls
  /\ Acquire(t, "write", "http_post", req)

\* add_kv_handler of task t: insert runs, the guard is dropped.
PostRelease(t) ==
  /\ t \in DOMAIN Holders
  /\ Holders[t].op = "http_post"
  /\ \E r \in {AddKvHandler(lsm, disk, Holders[t].req, "none")} :
        /\ lsm' = r.lsm
        /\ disk' = r.disk
        /\ last' = HttpResult("http_post", Holders[t].req, r.key, r.val, r.res,
                              r.rsp)
        /\ acked' = AckedAfter(r.key[1], r.val, r.res)
  /\ rot' = Held(Without(Holders, t))
  /\ calls' = calls + 1
  /\ UNCHANGED <<restarts, faults>>

\* A call of Memtable::insert on the memtable, as a user of the Memtable alone
\* makes it.
MemtableInsertCall(k, v) ==
  /\ rot.pc = "idle"
  /\ lsm' = [lsm EXCEPT !.memtable = MemtableInsert(@, k, v)]
  /\ last' = Result("memtable_insert", Some(k), Some(v), "Ok", 0)
  /\ UNCHANGED <<disk, acked, restarts, faults, rot>>
  /\ Counted

\* A call of Memtable::delete on the memtable.
MemtableDeleteCall(k) ==
  /\ rot.pc = "idle"
  /\ lsm' = [lsm EXCEPT !.memtable = MemtableDelete(@, k)]
  /\ last' = Result("memtable_delete", Some(k), None, "Ok", 0)
  /\ UNCHANGED <<disk, acked, restarts, faults, rot>>
  /\ Counted

\* A call of Memtable::flush on the memtable.
MemtableFlushCall ==
  /\ rot.pc = "idle"
  /\ \E r \in {MemtableFlush(lsm.memtable, disk)} :
        /\ lsm' = [lsm EXCEPT !.memtable = r.memtable]
        /\ disk' = r.disk
  /\ last' = Result("memtable_flush", None, None, "Ok", 0)
  /\ Counted
  /\ UNCHANGED <<acked, restarts, faults, rot>>

\* A call of Wal::rotate on the engine's WAL.
WalRotateCall(fail) ==
  /\ rot.pc = "idle"
  /\ \E r \in {WalRotate(lsm.wal, disk, fail)} :
        /\ lsm' = [lsm EXCEPT !.wal = r.wal]
        /\ disk' = r.disk
        /\ Faulted(fail, r.res)
        /\ last' = Result("wal_rotate", None, None, r.res, 0)
  /\ Counted
  /\ UNCHANGED <<acked, restarts, rot>>

\* A call of Lsm::remove_closed_segments.
RemoveClosedSegmentsCall(fail) ==
  /\ rot.pc = "idle"
  /\ \E r \in {LsmRemoveClosedSegments(lsm, disk, fail)} :
        /\ lsm' = r.lsm
        /\ disk' = r.disk
        /\ Faulted(fail, r.res)
        /\ last' = Result("remove_closed_segments", None, None, r.res, 0)
  /\ Counted
  /\ UNCHANGED <<acked, restarts, rot>>

\* A call of Wal::remove_closed_segments on the engine's WAL.
WalRemoveClosedSegmentsCall(fail) ==
  /\ rot.pc = "idle"
  /\ \E r \in {WalRemoveClosedSegments(lsm.wal, disk, fail)} :
        /\ lsm' = [lsm EXCEPT !.wal = r.wal]
        /\ disk' = r.disk
        /\ Faulted(fail, r.res)
        /\ last' = Result("wal_remove_closed_segments", None, None, r.res, r.n)
  /\ Counted
  /\ UNCHANGED <<acked, restarts, rot>>

\* A call of Lsm::force_compaction.
ForceCompactionCall ==
  /\ rot.pc = "idle"
  /\ \E r \in {ForceCompaction(lsm, disk)} :
        /\ lsm' = r.lsm
        /\ disk' = r.disk
        /\ last' = Result("force_compaction", None, None, r.res, 0)
  /\ Counted
  /\ faults' = faults
  /\ UNCHANGED <<acked, restarts, rot>>

\* A graceful restart: the engine is dropped, a new one is created over the
\* same directory with the configured ids (main), and Chipmunk::restore runs
\* on it.
Restart ==
  /\ rot.pc = "idle"
  /\ restarts < MaxRestarts
  /\ LET d1 == SegmentTryNew(WalStartId, LsmDrop(lsm, disk))
         l1 == LsmNew(WalStartId, MemtableStartId)
     IN IF ShouldRestore(d1)
        THEN \E order \in DirOrders(DOMAIN d1.wal) :
               \E r \in {LsmRestore(l1, d1, order)} :
                 lsm' = r.lsm /\ disk' = r.disk
        ELSE lsm' = l1 /\ disk' = d1
  /\ last' = Result("restart", None, None, "Ok", 0)
  /\ restarts' = restarts + 1
  /\ Counted
  /\ faults' = faults
  /\ UNCHANGED <<acked, rot>>

\* Lsm::restore called on the running engine, the directory listed in the
\* given order. A panic ends the use of the engine.
RestoreCall(order) ==
  /\ rot.pc = "idle"
  /\ order \in DirOrders(DOMAIN disk.wal)
  /\ \E r \in {LsmRestoreCall(lsm, disk, order)} :
        /\ lsm' = r.lsm
        /\ disk' = r.disk
        /\ last' = Result("restore", None, None, r.res, 0)
        /\ rot' = IF r.res = "Panic"
                  THEN [pc |-> "stopped", data |-> Empty]
                  ELSE rot
  /\ Counted
  /\ UNCHANGED <<acked, restarts, faults>>

\* The Wal is dropped: the buffer is force-flushed and nothing more is done
\* with this Wal.
DropCall ==
  /\ rot.pc = "idle"
  /\ restarts < MaxRestarts
  /\ \E r \in {WalDrop(lsm.wal, disk)} :
        /\ lsm' = [lsm EXCEPT !.wal = r.wal]
        /\ disk' = r.disk
        /\ last' = Result("wal_drop", None, None, r.res, 0)
  /\ rot' = [pc |-> "dropped", data |-> Empty]
  /\ calls' = calls
  /\ UNCHANGED <<acked, restarts, faults>>

\* After the drop, Wal::new with the configured id on the same directory and
\* Wal::restore, the directory listed in the given order (test::wal_replay).
ReopenRestore(order) ==
  /\ rot.pc = "dropped"
  /\ LET d1 == SegmentTryNew(WalStartId, disk)
     IN /\ order \in DirOrders(DOMAIN d1.wal)
        /\ \E r \in {WalRestoreRead(order, WalNew(WalStartId), d1)} :
              /\ lsm' = [lsm EXCEPT !.wal = r.wal]
              /\ disk' = r.disk
              /\ last' = Result("wal_restore", None, None, "Ok", Len(r.read))
  /\ rot' = Idle
  /\ restarts' = restarts + 1
  /\ calls' = calls
  /\ UNCHANGED <<acked, faults>>

\* Lsm::force_compaction called directly while the L2 id list is shorter
\* than MaxCompactions.
CompactionCall ==
  /\ rot.pc = "idle"
  /\ Len(lsm.l2_files) < MaxCompactions
  /\ \E r \in {ForceCompaction(lsm, disk)} :
        /\ lsm' = r.lsm
        /\ disk' = r.disk
        /\ last' = Result("force_compaction", None, None, r.res, 0)
  /\ UNCHANGED <<acked, restarts, calls, faults, rot>>

\* The process is killed while the buffer is being written to the active
\* segment's file (the forced flush of Drop, cut after cut bytes); a new
\* engine is created over the same directory and Chipmunk::restore runs on it.
\* From a state in which a cut-short frame is on disk the model follows the
\* program no further.
CrashRestore(cut) ==
  /\ rot.pc = "idle"
  /\ restarts < MaxRestarts
  /\ lsm.wal.linked
  /\ cut \in 1..(BufLen(lsm.wal.buffer) - 1)
  /\ LET whole == CHOOSE n \in 0..Len(lsm.wal.buffer) :
                    /\ BufLen(SubSeq(lsm.wal.buffer, 1, n)) <= cut
                    /\ n < Len(lsm.wal.buffer)
                         => BufLen(SubSeq(lsm.wal.buffer, 1, n + 1)) > cut
         bytes == EncodeAll(lsm.wal.buffer)
         torn == [id |-> lsm.wal.segment,
                  at |-> Len(disk.wal[lsm.wal.segment]) + whole,
                  bytes |-> SubSeq(bytes,
                                   BufLen(SubSeq(lsm.wal.buffer, 1, whole)) + 1,
                                   cut)]
         d0 == [disk EXCEPT !.wal[lsm.wal.segment] =
                              @ \o SubSeq(lsm.wal.buffer, 1, whole)]
         d1 == SegmentTryNew(WalStartId, d0)
         l1 == LsmNew(WalStartId, MemtableStartId)
     IN \E order \in DirOrders(DOMAIN d1.wal) :
          \E r \in {WalRestoreBytes(order, l1.wal, d1, torn)} :
            /\ disk' = r.disk
            /\ lsm' = IF r.res = "Ok"
                       THEN [l1 EXCEPT
                               !.wal = r.wal,
                               !.memtable = Replay(WalLines(r.wal, r.disk), @),
                               !.bloom = RestoreBloom(@,
                                 Replay(WalLines(r.wal, r.disk),
                                        l1.memtable).tree)]
                       ELSE [l1 EXCEPT !.wal = r.wal]
            /\ last' = Result("crash_restore", None, None, r.res,
                              Len(torn.bytes))
            /\ rot' = IF torn.bytes = <<>>
                       THEN Idle
                       ELSE [pc |-> "stopped", data |-> torn]
  /\ restarts' = restarts + 1
  /\ calls' = calls
  /\ UNCHANGED <<acked, faults>>

\* rotate_memtable run by another task, step 1: the memtable's id is pushed
\* to the L1 list (under the list's lock).
RotateBegin ==
  /\ rot.pc = "idle"
  /\ calls < MaxCalls
  /\ lsm' = [lsm EXCEPT !.sstables = Append(@, lsm.memtable.id)]
  /\ rot' = [pc |-> "pushed", data |-> Empty]
  /\ calls' = calls + 1
  /\ UNCHANGED <<disk, last, acked, restarts, faults>>

\* rotate_memtable, step 2: the first half of Memtable::flush.
FlushSwap ==
  /\ rot.pc = "pushed"
  /\ lsm' = [lsm EXCEPT !.memtable = MemtableSwap(@)]
  /\ rot' = [pc |-> "swapped", data |-> lsm.memtable.tree]
  /\ UNCHANGED <<disk, last, acked, restarts, calls, faults>>

\* rotate_memtable, step 3: the second half of Memtable::flush; the call
\* returns.
FlushWrite ==
  /\ rot.pc = "swapped"
  /\ \E r \in {MemtableWrite(lsm.memtable, disk, rot.data)} :
        /\ lsm' = [lsm EXCEPT !.memtable = r.memtable]
        /\ disk' = r.disk
  /\ rot' = Idle
  /\ last' = Result("rotate_memtable", None, None, "Ok", 0)
  /\ UNCHANGED <<acked, restarts, calls, faults>>

\* force_compaction run by another task, step 1: under the L1 list's lock the
\* SSTables are merged and removed and the list is cleared.
CompactBegin ==
  /\ rot.pc = "idle"
  /\ calls < MaxCalls
  /\ \E c \in {CompactL1(lsm.sstables, Empty, disk)} :
        /\ c.res = "Ok"
        /\ lsm' = [lsm EXCEPT !.sstables = <<>>]
        /\ disk' = c.disk
        /\ rot' = [pc |-> "compacted", data |-> c.l2_tree]
  /\ calls' = calls + 1
  /\ UNCHANGED <<last, acked, restarts, faults>>

\* force_compaction, step 2: the L2 file is written and recorded; the call
\* returns.
CompactWrite ==
  /\ rot.pc = "compacted"
  /\ \E r \in {WriteL2(lsm, disk, rot.data)} :
        /\ lsm' = r.lsm
        /\ disk' = r.disk
  /\ rot' = Idle
  /\ last' = Result("force_compaction", None, None, "Ok", 0)
  /\ UNCHANGED <<acked, restarts, calls, faults>>

\* The WAL block of Lsm::insert (lines 69-82), under the WAL lock: append and,
\* at max_size, rotate.
InsertWal(l, d, k, v) ==
  LET a == WalAppend(l.wal, d, Put(k, v), "none")
  IN IF a.wal.current_size >= WalMaxSize
     THEN WalRotate(a.wal, a.disk, "none")
     ELSE a

\* insert run by another task, step 1: the WAL block. The task now holds an
\* entry that is in the WAL and not yet in the memtable.
InsertBegin(k, v) ==
  /\ rot.pc = "idle"
  /\ \E r \in {InsertWal(lsm, disk, k, v)} :
        /\ lsm' = [lsm EXCEPT !.wal = r.wal]
        /\ disk' = r.disk
  /\ rot' = [pc |-> "appended", data |-> Put(k, v)]
  /\ Counted
  /\ UNCHANGED <<last, acked, restarts, faults>>

\* delete run by another task, step 1: the append under the WAL lock.
DeleteBegin(k) ==
  /\ rot.pc = "idle"
  /\ \E r \in {WalAppend(lsm.wal, disk, Delete(k), "none")} :
        /\ lsm' = [lsm EXCEPT !.wal = r.wal]
        /\ disk' = r.disk
  /\ rot' = [pc |-> "appended", data |-> Delete(k)]
  /\ Counted
  /\ UNCHANGED <<last, acked, restarts, faults>>

\* The rest of the insert or delete begun by InsertBegin or DeleteBegin: the
\* memtable write and, for insert, what follows it; the call returns.
WriteEnd ==
  /\ rot.pc = "appended"
  /\ \E r \in {IF rot.data.type = "Put"
                THEN InsertApply(lsm, disk, rot.data.key, rot.data.value, "none")
                ELSE [res |-> "Ok",
                      lsm |-> [lsm EXCEPT
                                 !.memtable = MemtableDelete(@, rot.data.key)],
                      disk |-> disk]} :
        /\ lsm' = r.lsm
        /\ disk' = r.disk
        /\ last' = Result(IF rot.data.type = "Put" THEN "insert" ELSE "delete",
                          Some(rot.data.key),
                          IF rot.data.type = "Put"
                          THEN Some(rot.data.value) ELSE None,
                          r.res, 0)
        /\ acked' = [acked EXCEPT
                       ![rot.data.key] =
                         IF r.res # "Ok" THEN Unknown
                         ELSE IF rot.data.type = "Put"
                              THEN Acked(Some(rot.data.value))
                              ELSE Acked(None)]
  /\ rot' = Idle
  /\ calls' = calls
  /\ UNCHANGED <<restarts, faults>>

\* A whole insert by a second task, run between the WAL block and the
\* memtable write of the first task's call.
InsertOther(k, v) ==
  /\ rot.pc = "appended"
  /\ \E r \in {LsmInsert(lsm, disk, k, v, "none")} :
        /\ lsm' = r.lsm
        /\ disk' = r.disk
        /\ last' = Result("insert", Some(k), Some(v), r.res, 0)
        /\ acked' = [acked EXCEPT
                       ![k] = IF r.res = "Ok" THEN Acked(Some(v)) ELSE Unknown]
  /\ Counted
  /\ UNCHANGED <<restarts, faults, rot>>

\* A whole delete by a second task, run between the WAL block and the
\* memtable write of the first task's call.
DeleteOther(k) ==
  /\ rot.pc = "appended"
  /\ \E r \in {LsmDelete(lsm, disk, k, "none")} :
        /\ lsm' = r.lsm
        /\ disk' = r.disk
        /\ last' = Result("delete", Some(k), None, r.res, 0)
        /\ acked' = [acked EXCEPT ![k] = Acked(None)]
  /\ Counted
  /\ UNCHANGED <<restarts, faults, rot>>

\* The calls a single caller makes on the engine.
WriteNext ==
  \/ \E k \in Keys, v \in Values, fail \in Left(Failures) : Insert(k, v, fail)
  \/ \E k \in Keys, fail \in Left(AppendFailures) : DeleteKey(k, fail)
  \/ \E k \in Keys : Get(k)
  \/ RotateMemtableCall
  \/ \E fail \in Left(RotateFailures) : WalRotateCall(fail)
  \/ \E fail \in Left(RemoveFailures) : RemoveClosedSegmentsCall(fail)
  \/ \E fail \in Left(RemoveFailures) : WalRemoveClosedSegmentsCall(fail)

Next ==
  \/ WriteNext
  \/ ForceCompactionCall
  \/ Restart

Spec == Init /\ [][Next]_vars

\* The engine without compaction and without restarts.
WriteSpec == Init /\ [][WriteNext]_vars

\* Tasks sharing the engine: one task's insert, delete and get run between
\* the steps of another task's rotate_memtable or force_compaction (get at any
\* point, insert and delete while no rotation is under way).
ConcNext ==
  \/ \E k \in Keys, v \in Values : Insert(k, v, "none")
  \/ \E k \in Keys : DeleteKey(k, "none")
  \/ \E k \in Keys : Get(k)
  \/ RotateBegin
  \/ FlushSwap
  \/ FlushWrite
  \/ CompactBegin
  \/ CompactWrite

ConcSpec == Init /\ [][ConcNext]_vars

\* Tasks writing through a shared engine: whole inserts and deletes, and one
\* task's insert or delete with other tasks' calls between its WAL block and
\* its memtable write.
WriterNext ==
  \/ \E k \in Keys, v \in Values : Insert(k, v, "none")
  \/ \E k \in Keys : DeleteKey(k, "none")
  \/ \E k \in Keys : Get(k)
  \/ \E k \in Keys, v \in Values : InsertBegin(k, v)
  \/ \E k \in Keys : DeleteBegin(k)
  \/ WriteEnd
  \/ \E k \in Keys, v \in Values : InsertOther(k, v)
  \/ \E k \in Keys : DeleteOther(k)

WriterSpec == Init /\ [][WriterNext]_vars

\* The Wal used alone: append, rotate and remove_closed_segments.
WalNext ==
  \/ \E e \in Entries, fail \in Left(AppendFailures) : WalAppendCall(e, fail)
  \/ \E fail \in Left(RotateFailures) : WalRotateCall(fail)
  \/ \E fail \in Left(RemoveFailures) : WalRemoveClosedSegmentsCall(fail)

WalSpec == Init /\ [][WalNext]_vars

\* The Wal used alone, its files never removed: append and rotate.
OrderNext ==
  \/ \E e \in Entries, fail \in Left(AppendFailures) : WalAppendCall(e, fail)
  \/ \E fail \in Left(RotateFailures) : WalRotateCall(fail)

OrderSpec == Init /\ [][OrderNext]_vars

\* Appends of entries of every shape to the Wal.
CodecNext == \E e \in CodecEntries : WalAppendCall(e, "none")

CodecSpec == Init /\ [][CodecNext]_vars

\* The Memtable used alone: insert, delete and flush.
MemtableNext ==
  \/ \E k \in TreeKeys, v \in TreeValues : MemtableInsertCall(k, v)
  \/ \E k \in TreeKeys : MemtableDeleteCall(k)
  \/ MemtableFlushCall

MemtableSpec == Init /\ [][MemtableNext]_vars

\* One engine instance: insert, delete, get, rotate_memtable and
\* force_compaction.
EngineNext ==
  \/ \E k \in Keys, v \in Values, fail \in Left(Failures) : Insert(k, v, fail)
  \/ \E k \in Keys, fail \in Left(AppendFailures) : DeleteKey(k, fail)
  \/ \E k \in Keys : Get(k)
  \/ RotateMemtableCall
  \/ ForceCompactionCall

EngineSpec == Init /\ [][EngineNext]_vars

\* The HTTP API over one engine: each handler holds the engine's lock for the
\* whole call.
HttpNext ==
  \/ \E req \in HttpBodies, fail \in Left(Failures) : HttpPost(req, fail)
  \/ \E key \in HttpKeys : HttpGet(key)
  \/ \E key \in HttpKeys, fail \in Left(AppendFailures) : HttpDelete(key, fail)

HttpSpec == Init /\ [][HttpNext]_vars

\* Inserts and deletes, and a kill during a write of the buffer followed by a
\* restart.
CrashNext ==
  \/ \E k \in Keys, v \in Values : Insert(k, v, "none")
  \/ \E k \in Keys : DeleteKey(k, "none")
  \/ \E cut \in 1..WalMaxSize : CrashRestore(cut)

CrashSpec == Init /\ [][CrashNext]_vars

\* Requests served by several tasks: each handler takes the store's lock,
\* runs its call and drops the guard.
LockNext ==
  \/ \E t \in Tasks, key \in HttpKeys : GetAcquire(t, key)
  \/ \E t \in Tasks : GetRelease(t)
  \/ \E t \in Tasks, key \in HttpKeys : DeleteAcquire(t, key)
  \/ \E t \in Tasks : DeleteRelease(t)
  \/ \E t \in Tasks, req \in HttpBodies : PostAcquire(t, req)
  \/ \E t \in Tasks : PostRelease(t)

LockSpec == Init /\ [][LockNext]_vars

\* Acknowledged inserts and deletes (with the rotations and removals insert
\* runs by itself), reads, and a graceful restart.
RestartNext ==
  \/ \E k \in Keys, v \in Values : Insert(k, v, "none")
  \/ \E k \in Keys : DeleteKey(k, "none")
  \/ \E k \in Keys : Get(k)
  \/ Restart

RestartSpec == Init /\ [][RestartNext]_vars

\* Inserts and deletes that may fail, with the WAL rotations, memtable
\* rotations and segment removals insert runs by itself, and direct memtable
\* rotations.
WritesNext ==
  \/ \E k \in Keys, v \in Values, fail \in Left(Failures) : Insert(k, v, fail)
  \/ \E k \in Keys, fail \in Left(AppendFailures) : DeleteKey(k, fail)
  \/ RotateMemtableCall

WritesSpec == Init /\ [][WritesNext]_vars

\* Inserts of the longest value, which may fail, and direct calls of
\* force_compaction.
CompactValues == {v \in Values : \A u \in Values : Len(u) <= Len(v)}

CompactNext ==
  \/ \E k \in Keys, v \in CompactValues, fail \in Left(Failures) :
       Insert(k, v, fail)
  \/ CompactionCall

CompactSpec == Init /\ [][CompactNext]_vars

\* Inserts and deletes that may fail.
InsertNext ==
  \/ \E k \in Keys, v \in Values, fail \in Left(Failures) : Insert(k, v, fail)
  \/ \E k \in Keys, fail \in Left(AppendFailures) : DeleteKey(k, fail)

InsertSpec == Init /\ [][InsertNext]_vars

\* The public operations of the Wal, which may fail, then a drop of the Wal
\* and a restore by a new Wal on the same directory.
DropNext ==
  \/ \E e \in Entries, fail \in Left(AppendFailures) : WalAppendCall(e, fail)
  \/ \E fail \in Left(RotateFailures) : WalRotateCall(fail)
  \/ \E fail \in Left(RemoveFailures) : WalRemoveClosedSegmentsCall(fail)
  \/ DropCall
  \/ \E order \in DirOrders(DOMAIN disk.wal \cup {WalStartId}) :
       ReopenRestore(order)

DropSpec == Init /\ [][DropNext]_vars

\* Inserts and deletes, and calls of Lsm::restore at any moment.
RestoreNext ==
  \/ \E k \in Keys, v \in Values : Insert(k, v, "none")
  \/ \E k \in Keys : DeleteKey(k, "none")
  \/ \E order \in DirOrders(DOMAIN disk.wal) : RestoreCall(order)

RestoreSpec == Init /\ [][RestoreNext]_vars

\* ------------------------------------------------------------------ claims
\* What a call of get(k) made in the current state returns.
GetNow(k) == LsmGet(lsm, disk, k)

\* The entries of e held by the WAL w: in its buffer or in a segment file.
WalCount(w, d, e) ==
  Cardinality({i \in 1..Len(w.buffer) : w.buffer[i] = e})
  + Cardinality({x \in UNION {{<<id, i>> : i \in 1..Len(d.wal[id])} :
                                 id \in DOMAIN d.wal} :
                   d.wal[x[1]][x[2]] = e})

\* The entry a call of insert or delete recorded in last appends.
EntryOf(r) ==
  IF r.op = "insert" THEN Put(r.key[1], r.val[1]) ELSE Delete(r.key[1])

\* C1: read-your-write. While the last write on k is an insert(k, v) that
\* returned Ok, get(k) returns v, whatever insert, delete, rotate_memtable,
\* WAL rotation and remove_closed_segments calls (failed ones included) came
\* after it on other keys.
C1_ReadYourWrite ==
  \A k \in Keys :
    (acked[k].known /\ acked[k].val # None)
      => GetNow(k) = [res |-> "Ok", val |-> acked[k].val]

\* C1 witness: an acknowledged value that is no longer in the memtable and is
\* served from an L1 SSTable, with another write on the key before it.
C1_Witness ==
  \E k \in Keys :
    /\ acked[k].known /\ acked[k].val # None
    /\ MemtableGet(lsm.memtable, k) = None
    /\ Len(lsm.sstables) >= 2
    /\ TreeGet(disk.sst[lsm.sstables[1]], k) = Some(None)
    /\ GetNow(k).val = acked[k].val

\* C2: delete hides the key at every level. While the last write on k is a
\* delete(k) that returned Ok, get(k) returns not-found.
C2_DeleteHides ==
  \A k \in Keys :
    (acked[k].known /\ acked[k].val = None)
      => GetNow(k) = [res |-> "Ok", val |-> None]

\* C3: compaction preserves reachability. A key for which get returns a value
\* just before force_compaction returns the same value just after it.
C3_CompactionPreserves ==
  [][(last'.op = "force_compaction" /\ last'.res = "Ok")
       => \A k \in Keys :
            (GetNow(k).res = "Ok" /\ GetNow(k).val # None)
              => LsmGet(lsm', disk', k) = GetNow(k)]_vars

\* C4: compaction drops deleted keys. The L2 file force_compaction writes holds
\* no key whose newest record among the consumed L1 SSTables is a tombstone.
C4_CompactionDropsDeleted ==
  [][(last'.op = "force_compaction" /\ last'.res = "Ok")
       => \A k \in DOMAIN disk'.l2[lsm'.l2_files[Len(lsm'.l2_files)]] :
            ~ \E i \in 1..Len(lsm.sstables) :
                /\ TreeGet(disk.sst[lsm.sstables[i]], k) = Some(None)
                /\ \A j \in (i + 1)..Len(lsm.sstables) :
                     TreeGet(disk.sst[lsm.sstables[j]], k) = None]_vars

\* C5: persistence across a graceful restart. After acknowledged inserts and
\* deletes and a restart, get returns the value of the last acknowledged insert
\* of a key and not-found for a key whose last acknowledged write is a delete.
C5_PersistsAcrossRestart ==
  last.op = "restart"
    => \A k \in Keys :
         acked[k].known => GetNow(k) = [res |-> "Ok", val |-> acked[k].val]

\* C6: single-key linearizability. Once insert(k, v) has returned and no later
\* write on k has, a get(k) started by any task, also between two steps of
\* another task's rotate_memtable or force_compaction, returns, and returns v.
C6_ReadAfterInsertConcurrent ==
  \A k \in Keys :
    (acked[k].known /\ acked[k].val # None)
      => /\ GetNow(k).res = "Ok"
         /\ GetNow(k).val = acked[k].val

\* C7: write atomicity. An insert or delete that returns an error has either
\* recorded its entry in the WAL and applied it to the memtable, or done
\* neither.
C7_WriteAtomicity ==
  [][(last'.op \in {"insert", "delete"} /\ last'.res # "Ok")
       => ((WalCount(lsm'.wal, disk', EntryOf(last'))
              > WalCount(lsm.wal, disk, EntryOf(last')))
           <=> lsm'.memtable # lsm.memtable)]_vars

\* C8: WAL rotation postcondition. When Wal::rotate returns Ok from active
\* segment n, the size is 0, the active segment is n + 1 and closed_segments is
\* the list before the call with n appended.
C8_RotatePostcondition ==
  [][(last'.op = "wal_rotate" /\ last'.res = "Ok")
       => /\ lsm'.wal.current_size = 0
          /\ lsm'.wal.segment = lsm.wal.segment + 1
          /\ lsm'.wal.closed_segments
               = Append(lsm.wal.closed_segments, lsm.wal.segment)]_vars

\* C8 witness: Wal::rotate has returned Ok for the second time, closing a
\* segment that entries had been written to.
C8_Witness ==
  /\ last.op = "wal_rotate" /\ last.res = "Ok"
  /\ Len(lsm.wal.closed_segments) >= 2
  /\ lsm.wal.current_size = 0
  /\ (lsm.wal.segment - 1) \in DOMAIN disk.wal
  /\ disk.wal[lsm.wal.segment - 1] # <<>>

\* C9: rotation is a durability boundary. When Wal::rotate returns Ok, no
\* entry appended before it is still in the buffer, and the file of the
\* segment it closed is fsynced up to its end.
C9_RotateDurable ==
  [][(last'.op = "wal_rotate" /\ last'.res = "Ok")
       => /\ lsm'.wal.buffer = <<>>
          /\ lsm.wal.linked
               => disk'.synced[lsm.wal.segment]
                    = Len(disk'.wal[lsm.wal.segment])]_vars

\* C10: closed-segment removal postcondition. When remove_closed_segments
\* returns Ok, no file of a segment that was closed exists, closed_segments is
\* empty, the active segment's file exists, and Wal::remove_closed_segments
\* has returned the number of segments that were closed.
C10_RemovePostcondition ==
  [][(last'.op \in {"remove_closed_segments", "wal_remove_closed_segments"}
        /\ last'.res = "Ok")
       => /\ \A id \in SeqToSet(lsm.wal.closed_segments) :
               id \notin DOMAIN disk'.wal
          /\ lsm'.wal.closed_segments = <<>>
          /\ lsm'.wal.segment \in DOMAIN disk'.wal
          /\ last'.op = "wal_remove_closed_segments"
               => last'.n = Len(lsm.wal.closed_segments)]_vars

\* The record of entry e in a tree: its value, or a tombstone.
RecordOf(e) == IF e.type = "Put" THEN Some(e.value) ELSE None

\* Entry e is written in an SSTable file of directory d.
InSSTable(e, d) ==
  \E id \in DOMAIN d.sst : TreeGet(d.sst[id], e.key) = Some(RecordOf(e))

\* C11: a WAL segment is deleted only after capture. When an insert removes a
\* closed segment's file, no entry of that file is only in a caller that has
\* appended it and not yet written the memtable, and none is only in the
\* active memtable: each such entry is in an SSTable file.
C11_DeletedAfterCapture ==
  [][\A id \in (DOMAIN disk.wal) \ (DOMAIN disk'.wal) :
       \A i \in 1..Len(disk.wal[id]) :
         \/ InSSTable(disk.wal[id][i], disk')
         \/ /\ ~(rot'.pc = "appended" /\ rot'.data = disk.wal[id][i])
            /\ TreeGet(lsm'.memtable.tree, disk.wal[id][i].key)
                 # Some(RecordOf(disk.wal[id][i]))]_vars

\* C12: WAL frame round-trip. Decoding the bytes append wrote for the entries
\* of a segment file, or for the entries in the buffer, yields these entries
\* one by one and stops at the end of the stream; the bytes of one entry decode
\* to that entry, and their number is what append adds to the size.
C12_FrameRoundTrip ==
  /\ \A id \in DOMAIN disk.wal :
       /\ DecodeStream(EncodeAll(disk.wal[id]))
            = [res |-> "Ok", entries |-> disk.wal[id]]
       /\ \A i \in 1..Len(disk.wal[id]) :
            /\ DecodeStream(Encode(disk.wal[id][i]))
                 = [res |-> "Ok", entries |-> <<disk.wal[id][i]>>]
            /\ Len(Encode(disk.wal[id][i])) = EncLen(disk.wal[id][i])
  /\ DecodeStream(EncodeAll(lsm.wal.buffer))
       = [res |-> "Ok", entries |-> lsm.wal.buffer]

\* C12 witness: a segment file holds a Put with an empty key and an empty value
\* followed by other entries, a Delete among them.
C12_Witness ==
  \E id \in DOMAIN disk.wal :
    /\ Len(disk.wal[id]) >= 3
    /\ disk.wal[id][1] = Put(<<>>, <<>>)
    /\ \E i \in 2..Len(disk.wal[id]) : disk.wal[id][i].type = "Delete"
    /\ \E i \in 2..Len(disk.wal[id]) :
         disk.wal[id][i].type = "Put" /\ disk.wal[id][i].value = <<1, 0>>

\* C13: SSTable round-trip. Loading the bytes flush wrote for a tree gives that
\* tree, tombstones included, and the keys are stored in lexicographic order.
C13_SSTableRoundTrip ==
  \A id \in DOMAIN disk.sst :
    /\ Deserialize(Serialize(disk.sst[id])).res = "Ok"
    /\ Deserialize(Serialize(disk.sst[id])).tree = disk.sst[id]
    /\ \A i, j \in 1..Len(Deserialize(Serialize(disk.sst[id])).keys) :
         i < j => LexLess(Deserialize(Serialize(disk.sst[id])).keys[i],
                          Deserialize(Serialize(disk.sst[id])).keys[j])

\* C13 witness: a flushed file holds a tombstone, a live value, and two keys of
\* which one is a prefix of the other.
C13_Witness ==
  \E id \in DOMAIN disk.sst :
    /\ {<<1>>, <<1, 0>>} \subseteq DOMAIN disk.sst[id]
    /\ \E k \in DOMAIN disk.sst[id] : disk.sst[id][k] = None
    /\ \E k \in DOMAIN disk.sst[id] : disk.sst[id][k] = Some(<<0, 1>>)

\* The keys that have a record in the memtable or in some sstable-<id> file.
Recorded(l, d) ==
  DOMAIN l.memtable.tree \cup UNION {DOMAIN d.sst[id] : id \in DOMAIN d.sst}

\* C14: memtable rotation postcondition and no loss. When rotate_memtable
\* returns from memtable id n and tree T, sstable-<n> holds exactly T, the
\* memtable is empty with size 0 and id n + 1, n is appended to the L1 list,
\* and every key that had a record in the memtable or an SSTable file still
\* has one.
C14_RotateMemtablePostcondition ==
  [][last'.op = "rotate_memtable"
       => /\ lsm.memtable.id \in DOMAIN disk'.sst
          /\ disk'.sst[lsm.memtable.id] = lsm.memtable.tree
          /\ lsm'.memtable.tree = Empty
          /\ lsm'.memtable.approximate_size = 0
          /\ lsm'.memtable.id = lsm.memtable.id + 1
          /\ lsm'.sstables = Append(lsm.sstables, lsm.memtable.id)
          /\ Recorded(lsm, disk) \subseteq Recorded(lsm', disk')]_vars

\* C15: the filter has no false negatives on one engine instance. When insert(k, _)
\* returns Ok, check(k) is true, and no insert, delete, rotate_memtable or
\* force_compaction makes check(k) false for a key for which it was true.
C15_NoFalseNegatives ==
  [][/\ (last'.op = "insert" /\ last'.res = "Ok")
          => BloomCheck(lsm'.bloom, last'.key[1])
     /\ \A k \in Keys :
          BloomCheck(lsm.bloom, k) => BloomCheck(lsm'.bloom, k)]_vars

\* C15 witness: a key was inserted and then deleted, its tombstone was flushed
\* and compacted, and check still answers true for it.
C15_Witness ==
  /\ last.op = "force_compaction" /\ last.res = "Ok"
  /\ lsm.l2_files # <<>>
  /\ \E k \in Keys :
       /\ acked[k].known /\ acked[k].val = None
       /\ BloomCheck(lsm.bloom, k)
       /\ ~BloomCheck(lsm.bloom, CHOOSE x \in Keys : x # k)

\* The filter bits of the keys whose value in tree is live.
LiveBits(tree) ==
  UNION {{BloomHash1(k), BloomHash2(k)} :
           k \in {x \in DOMAIN tree : tree[x] # None}}

\* C16: the filter survives restore. After a drop, a new engine over the same
\* directory and restore(), check(k) is true for every key inserted and not
\* deleted before the drop and for every key whose restored value is live,
\* and the filter holds nothing but the bits of those live keys.
C16_FilterSurvivesRestore ==
  last.op = "restart"
    => /\ \A k \in Keys :
            (acked[k].known /\ acked[k].val # None)
              => BloomCheck(lsm.bloom, k)
       /\ \A k \in DOMAIN lsm.memtable.tree :
            lsm.memtable.tree[k] # None => BloomCheck(lsm.bloom, k)
       /\ lsm.bloom = LiveBits(lsm.memtable.tree)

\* C17: full compaction postcondition. When force_compaction returns, the L1
\* list is empty, no sstable-<id> file of an id that was in it exists, exactly
\* one file l2-<id> has been written, its id is the L2 counter's value before
\* the call and was used by no earlier L2 file, and the id is appended to the
\* L2 list.
C17_CompactionPostcondition ==
  [][(last'.op = "force_compaction" /\ last'.res = "Ok")
       => /\ lsm'.sstables = <<>>
          /\ \A id \in SeqToSet(lsm.sstables) : id \notin DOMAIN disk'.sst
          /\ lsm.l2_id \notin DOMAIN disk.l2
          /\ DOMAIN disk'.l2 = (DOMAIN disk.l2) \cup {lsm.l2_id}
          /\ \A id \in DOMAIN disk.l2 :
               id \in DOMAIN disk'.l2 /\ disk'.l2[id] = disk.l2[id]
          /\ lsm'.l2_files = Append(lsm.l2_files, lsm.l2_id)]_vars

\* C18: HTTP CRUD mapping. GET answers 200 with the value exactly when get
\* returns a value and 404 when it returns not-found; an accepted POST and
\* an accepted DELETE answer 204; and GET of a key answers 200 with the value
\* of the last accepted POST of that key, 404 when an accepted DELETE came
\* after it.
C18_HttpCrud ==
  [][/\ last'.op = "http_get"
          => /\ GetNow(last'.key[1]).val # None
                  => /\ last'.n = StatusOk
                     /\ last'.bytes = GetNow(last'.key[1]).val[1]
             /\ GetNow(last'.key[1]).val = None
                  => last'.n = StatusNotFound
             /\ (last'.key[1] \in DOMAIN acked /\ acked[last'.key[1]].known)
                  => IF acked[last'.key[1]].val = None
                     THEN last'.n = StatusNotFound
                     ELSE /\ last'.n = StatusOk
                          /\ last'.bytes = acked[last'.key[1]].val[1]
     /\ (last'.op \in {"http_post", "http_delete"}
          /\ last'.key # None /\ last'.res = "Ok")
          => last'.n = StatusNoContent]_vars

\* C19: POST request parsing and error masking. The body of a POST is split at
\* its first '=': what precedes it is the key, all that follows it the value,
\* and these are what an accepted insert stores. A body without '=' is
\* answered 400 'Must provide key=value format' and the store is unchanged.
\* Every error of insert or delete is answered 500.
C19_PostParsing ==
  [][/\ last'.op = "http_post"
          => IF \A i \in 1..Len(last'.req) : last'.req[i] # EqualsSign
             THEN /\ last'.n = StatusBadRequest
                  /\ last'.text = "Must provide key=value format"
                  /\ lsm' = lsm /\ disk' = disk
             ELSE /\ \E i \in 1..Len(last'.req) :
                       /\ last'.req[i] = EqualsSign
                       /\ \A j \in 1..(i - 1) : last'.req[j] # EqualsSign
                       /\ last'.key = Some(SubSeq(last'.req, 1, i - 1))
                       /\ last'.val
                            = Some(SubSeq(last'.req, i + 1, Len(last'.req)))
                  /\ last'.res = "Ok"
                       => \/ TreeGet(lsm'.memtable.tree, last'.key[1])
                               = Some(last'.val)
                          \/ \E id \in DOMAIN disk'.sst :
                               TreeGet(disk'.sst[id], last'.key[1])
                                 = Some(last'.val)
                  /\ last'.res # "Ok"
                       => last'.n = StatusInternalServerError
     /\ (last'.op = "http_delete" /\ last'.res # "Ok")
          => last'.n = StatusInternalServerError]_vars

\* C19 witness: after a request that failed and was answered 500, a body with
\* two '=' was accepted and its value (holding the second '=') is what get
\* returns for its key.
C19_Witness ==
  /\ last.op = "http_post"
  /\ last.req = <<1, 61, 8, 61, 9>>
  /\ last.n = StatusNoContent
  /\ GetNow(<<1>>) = [res |-> "Ok", val |-> Some(<<8, 61, 9>>)]
  /\ faults > 0

\* C20: restore tolerates a truncated tail. When the last frame of a segment
\* was cut short after its marker, Wal::restore returns Ok and every complete
\* entry of that segment that precedes the cut frame is in the restored WAL.
C20_RestoreToleratesTruncatedTail ==
  (last.op = "crash_restore" /\ last.n > 0)
    => /\ last.res = "Ok"
       /\ \A i \in 1..rot.data.at :
            WalCount(lsm.wal, disk, disk.wal[rot.data.id][i]) > 0

\* C21: single writer, many readers. A task that is inside an insert or a
\* delete is the only task inside a call on the store, and the store changes
\* only in a step of the one task that holds the write lock.
C21_SingleWriter ==
  /\ [](\A t \in DOMAIN Holders :
          Holders[t].mode = "write" => DOMAIN Holders = {t})
  /\ [][(lsm' # lsm \/ disk' # disk)
          => \E t \in DOMAIN Holders :
               /\ Holders[t].mode = "write"
               /\ DOMAIN Holders = {t}
               /\ rot' = Idle]_vars

\* C21 witness: after an insert, three gets are inside get at the same time.
C21_Witness ==
  /\ DOMAIN lsm.memtable.tree # {}
  /\ DOMAIN Holders = Tasks
  /\ \A t \in Tasks : Holders[t].mode = "read"

\* The entry the WAL w received last: the last of its buffer or, when the
\* buffer was written, of the active segment's file.
Newest(w, d) ==
  IF w.buffer # <<>>
  THEN w.buffer[Len(w.buffer)]
  ELSE d.wal[w.segment][Len(d.wal[w.segment])]

\* C22: WAL size invariant. After append and rotate, current_size is the
\* number of encoded bytes of the active segment, those in the buffer and
\* those in its file; an append that returns Ok returns the encoded length of
\* its entry and has added it to current_size.
C22_WalSize ==
  /\ [](lsm.wal.linked
          => lsm.wal.current_size
               = BufLen(lsm.wal.buffer) + BufLen(disk.wal[lsm.wal.segment]))
  /\ [][(last'.op = "wal_append" /\ last'.res = "Ok"
          /\ lsm'.wal # lsm.wal /\ lsm'.wal.linked)
          => /\ last'.n = EncLen(Newest(lsm'.wal, disk'))
             /\ lsm'.wal.current_size = lsm.wal.current_size + last'.n]_vars

\* C23: closed-segment list exactness. In every state, also after rotate or
\* remove_closed_segments returned an error, closed_segments holds exactly the
\* ids of the segment files other than the active one: never the active id,
\* never the id of a removed file, and it is strictly increasing.
C23_ClosedSegmentsExact ==
  /\ lsm.wal.segment \notin SeqToSet(lsm.wal.closed_segments)
  /\ SeqToSet(lsm.wal.closed_segments) \subseteq DOMAIN disk.wal
  /\ (DOMAIN disk.wal) \ {lsm.wal.segment}
       \subseteq SeqToSet(lsm.wal.closed_segments)
  /\ \A i, j \in 1..Len(lsm.wal.closed_segments) :
       i < j => lsm.wal.closed_segments[i] < lsm.wal.closed_segments[j]

\* C24: buffer bound. After append, rotate or remove_closed_segments has
\* returned Ok the buffer holds at most buffer_size bytes; an append that
\* returns Ok writes the buffer to the active segment and empties it exactly
\* when the buffer with the new entry has reached buffer_size.
C24_BufferBound ==
  /\ []((last.op \in {"wal_append", "wal_rotate", "wal_remove_closed_segments"}
          /\ last.res = "Ok")
          => BufLen(lsm.wal.buffer) <= WalBufferSize)
  /\ [][(last'.op = "wal_append" /\ last'.res = "Ok"
          /\ lsm'.wal # lsm.wal /\ lsm.wal.linked)
          => IF BufLen(lsm.wal.buffer) + last'.n >= WalBufferSize
             THEN /\ lsm'.wal.buffer = <<>>
                  /\ Len(disk'.wal[lsm.wal.segment])
                       = Len(disk.wal[lsm.wal.segment])
                           + Len(lsm.wal.buffer) + 1
             ELSE /\ Len(lsm'.wal.buffer) = Len(lsm.wal.buffer) + 1
                  /\ disk' = disk]_vars

\* C25: segment lifecycle. A segment file is created only under an id above
\* every id opened before, so a deleted id is never opened again, and only
\* the file of the active segment, which is not in closed_segments, is ever
\* appended to - within one run and across a restart.
C25_SegmentLifecycle ==
  [][/\ \A id \in (DOMAIN disk'.wal) \ (DOMAIN disk.wal) :
          id > lsm.wal.segment
     /\ \A id \in (DOMAIN disk'.wal) \cap (DOMAIN disk.wal) :
          disk'.wal[id] # disk.wal[id]
            => /\ id = lsm.wal.segment
               /\ id \notin SeqToSet(lsm.wal.closed_segments)]_vars

\* C26: exclusive create. A step that opens a segment (Wal::new of a new
\* engine, or a rotate) either opens an id whose file did not exist, or fails
\* with SegmentOpen and leaves the existing file as it was.
C26_ExclusiveCreate ==
  [][(restarts' # restarts \/ lsm'.wal.segment # lsm.wal.segment)
       => \/ lsm'.wal.segment \notin DOMAIN disk.wal
          \/ /\ last'.res = "SegmentOpen"
             /\ disk'.wal[lsm'.wal.segment] = disk.wal[lsm'.wal.segment]]_vars

RECURSIVE ConcatFiles(_, _)
\* The entries of the segment files with ids in S, in ascending id.
ConcatFiles(d, S) ==
  IF S = {}
  THEN <<>>
  ELSE LET m == CHOOSE x \in S : \A y \in S : x <= y
       IN d.wal[m] \o ConcatFiles(d, S \ {m})

\* The log: the segment files in ascending id, then the unflushed buffer.
Log(w, d) == ConcatFiles(d, DOMAIN d.wal) \o w.buffer

\* The entry of the append that last records.
AppendedEntry(r) ==
  IF r.val = None THEN Delete(r.key[1]) ELSE Put(r.key[1], r.val[1])

\* C27: WAL order. An append that returns Ok puts its entry at the end of the
\* log (the segment files in ascending id followed by the buffer) and leaves
\* what precedes it as it was; a rotate leaves the log as it was. So the log
\* is the sequence of appended entries in append order.
C27_WalOrder ==
  [][/\ (last'.op = "wal_append" /\ last'.res = "Ok" /\ lsm'.wal # lsm.wal)
          => Log(lsm'.wal, disk') = Append(Log(lsm.wal, disk),
                                           AppendedEntry(last'))
     /\ last'.op = "wal_rotate"
          => Log(lsm'.wal, disk') = Log(lsm.wal, disk)]_vars

\* C27 witness: after appends and rotations two segment files and the buffer
\* hold entries.
C27_Witness ==
  /\ last.op = "wal_append" /\ last.res = "Ok"
  /\ lsm.wal.buffer # <<>>
  /\ Cardinality({id \in DOMAIN disk.wal : disk.wal[id] # <<>>}) >= 2
  /\ Len(Log(lsm.wal, disk)) >= 3

\* The map an entry sequence s describes when it is applied left to right to
\* an empty map: every key of s has the record of the last entry of s on it.
AppliedMap(s) ==
  [k \in {s[i].key : i \in 1..Len(s)} |->
     LET i == CHOOSE i \in 1..Len(s) :
                /\ s[i].key = k
                /\ \A j \in (i + 1)..Len(s) : s[j].key # k
     IN IF s[i].type = "Put" THEN Some(s[i].value) ELSE None]

RECURSIVE PutBytes(_)
\* The bytes of the values of the Put entries of s.
PutBytes(s) ==
  IF s = <<>>
  THEN 0
  ELSE (IF Head(s).type = "Put" THEN Len(Head(s).value) ELSE 0)
         + PutBytes(Tail(s))

NonEmptySegments(l, d) ==
  {id \in DOMAIN LsmDrop(l, d).wal : LsmDrop(l, d).wal[id] # <<>>}

\* C29: when the log directory holds several non-empty segment files at a
\* restart, then whatever order the directory listing returns them in, the
\* memtable after restore holds for every key of the log the record that was
\* appended last for it.
C29_RestoreRespectsRecency ==
  [][(restarts' # restarts /\ Cardinality(NonEmptySegments(lsm, disk)) >= 2) =>
       LET s == Log(lsm.wal, disk)
       IN \A i \in 1..Len(s) :
            /\ s[i].key \in DOMAIN lsm'.memtable.tree
            /\ lsm'.memtable.tree[s[i].key] = AppliedMap(s)[s[i].key]]_vars

OnDisk(d) == UNION {SeqToSet(d.wal[id]) : id \in DOMAIN d.wal}

\* C31: an append that returns Ok adds its entry to the log (files and
\* buffer); when the Wal is dropped the buffer is written out, so that every
\* entry of the log is in a segment file and the buffer is empty; and the
\* entries a later restore reads back are, as a set, the entries of the log
\* before the drop, whatever order the directory is listed in.
C31_DropFlushes ==
  [][/\ (last'.op = "wal_append" /\ last'.res = "Ok" /\ lsm'.wal # lsm.wal)
          => AppendedEntry(last') \in SeqToSet(Log(lsm'.wal, disk'))
     /\ (rot.pc = "idle" /\ rot'.pc = "dropped")
          => /\ OnDisk(disk') = SeqToSet(Log(lsm.wal, disk))
             /\ lsm'.wal.buffer = <<>>
     /\ (rot.pc = "dropped" /\ rot'.pc = "idle")
          => \A order \in DirOrders(DOMAIN disk'.wal) :
               LET r == WalRestoreRead(order, WalNew(WalStartId),
                                       SegmentTryNew(WalStartId, disk))
               IN (r.wal = lsm'.wal /\ r.disk = disk')
                    => SeqToSet(r.read) = OnDisk(disk)]_vars

\* The errors of the write path that stand for a failed I/O operation.
IoErrors == {"WalAppend", "SegmentFsync", "SegmentOpen", "SegmentDelete"}

\* C32: an insert or delete that returns an I/O error leaves the memtable,
\* the filter, the L1 and L2 id lists, the active segment id and
\* closed_segments as they were before the call; and when the error is a
\* failed flush of the buffer, the buffer is not cleared: it holds what it
\* held, followed by the entry of the call.
C32_WriteErrorsKeepState ==
  [][(faults' # faults /\ last'.op \in {"insert", "delete"}
        /\ last'.res \in IoErrors) =>
       /\ lsm'.memtable = lsm.memtable
       /\ lsm'.bloom = lsm.bloom
       /\ lsm'.sstables = lsm.sstables
       /\ lsm'.l2_files = lsm.l2_files
       /\ lsm'.wal.segment = lsm.wal.segment
       /\ lsm'.wal.closed_segments = lsm.wal.closed_segments
       /\ last'.res = "WalAppend"
            => lsm'.wal.buffer = Append(lsm.wal.buffer, AppendedEntry(last'))]_vars

\* C33: an insert that returns Ok has rotated the WAL exactly when the size
\* after the append of its entry reached wal.max_size: then the active
\* segment id went up by one and the size is 0; otherwise the active segment
\* id is the same and the size is the old size plus the entry. Either way the
\* size after the insert is below wal.max_size.
C33_WalRotationThreshold ==
  [][(last'.op = "insert" /\ last'.res = "Ok" /\ calls' # calls) =>
       LET size == lsm.wal.current_size
                     + EncLen(Put(last'.key[1], last'.val[1]))
       IN /\ size >= WalMaxSize
               => /\ lsm'.wal.segment = lsm.wal.segment + 1
                  /\ lsm'.wal.current_size = 0
          /\ size < WalMaxSize
               => /\ lsm'.wal.segment = lsm.wal.segment
                  /\ lsm'.wal.current_size = size
          /\ lsm'.wal.current_size < WalMaxSize]_vars

\* An insert that returned Ok rotated the WAL (the size is back to 0, the
\* segment it closed is listed) without flushing the memtable.
C33_Witness ==
  /\ last.op = "insert"
  /\ last.res = "Ok"
  /\ lsm.wal.current_size = 0
  /\ lsm.wal.segment = WalStartId + 1
  /\ lsm.wal.closed_segments = <<WalStartId>>
  /\ lsm.memtable.tree # Empty

\* C34: an insert that returns Ok has rotated the memtable and removed the
\* closed segments exactly when the size after its memtable write, the old
\* size plus the length of the value, exceeded memtable.max_size: then the
\* tree with the new record is in sstable-<id>, the id is listed in L1, the
\* memtable is empty with the next id, and no closed segment is left;
\* otherwise the memtable holds the new record, its size is the sum, and no
\* segment file is removed. Either way the size after the insert is at most
\* memtable.max_size. No insert, failed or not, removes a segment file before
\* the memtable has been flushed.
C34_MemtableRotationThreshold ==
  [][(last'.op = "insert" /\ calls' # calls) =>
       LET k == last'.key[1]
           v == last'.val[1]
           size == lsm.memtable.approximate_size + Len(v)
           id == lsm.memtable.id
           flushed == /\ id \in DOMAIN disk'.sst
                      /\ disk'.sst[id] = With(lsm.memtable.tree, k, Some(v))
                      /\ lsm'.memtable = MemtableNew(id + 1)
                      /\ lsm'.sstables = Append(lsm.sstables, id)
       IN /\ (last'.res = "Ok" /\ size > MemtableMaxSize)
               => flushed /\ lsm'.wal.closed_segments = <<>>
          /\ (last'.res = "Ok" /\ size <= MemtableMaxSize)
               => /\ lsm'.memtable.tree = With(lsm.memtable.tree, k, Some(v))
                  /\ lsm'.memtable.approximate_size = size
                  /\ lsm'.memtable.id = id
                  /\ lsm'.sstables = lsm.sstables
                  /\ disk'.sst = disk.sst
                  /\ DOMAIN disk.wal \subseteq DOMAIN disk'.wal
          /\ last'.res = "Ok"
               => lsm'.memtable.approximate_size <= MemtableMaxSize
          /\ ~(DOMAIN disk.wal \subseteq DOMAIN disk'.wal) => flushed]_vars

\* An insert that returned Ok flushed the memtable after the same key had
\* been written twice (the overwrite counted again) and removed the segment
\* its WAL rotation had closed.
C34_Witness ==
  /\ last.op = "insert"
  /\ last.res = "Ok"
  /\ lsm.memtable = MemtableNew(MemtableStartId + 1)
  /\ lsm.sstables = <<MemtableStartId>>
  /\ Cardinality(DOMAIN disk.sst[MemtableStartId]) = 1
  /\ \E k \in Keys : disk.sst[MemtableStartId] = With(Empty, k, Some(<<7>>))
  /\ WalStartId \notin DOMAIN disk.wal

\* C35: an insert runs force_compaction, as its last step, exactly when it
\* got that far (no error before) and the L2 id list has more than
\* L2_COMPACTION_THRESHOLD entries: then one L2 file is written, its id is
\* appended to the L2 list and the L1 list is emptied; with 3 or fewer
\* entries, and in an insert that returns an error, the L2 list, the L2
\* files and the L2 id counter are left alone and no SSTable is removed.
C35_CompactionTrigger ==
  [][(last'.op = "insert" /\ calls' # calls) =>
       /\ (last'.res = "Ok" /\ Len(lsm.l2_files) > L2CompactionThreshold)
            => /\ lsm'.l2_files = Append(lsm.l2_files, lsm.l2_id)
               /\ lsm'.l2_id = lsm.l2_id + 1
               /\ DOMAIN disk'.l2 = DOMAIN disk.l2 \cup {lsm.l2_id}
               /\ lsm'.sstables = <<>>
               /\ DOMAIN disk'.sst = {}
       /\ (last'.res \in IoErrors \/ Len(lsm.l2_files) <= L2CompactionThreshold)
            => /\ lsm'.l2_files = lsm.l2_files
               /\ lsm'.l2_id = lsm.l2_id
               /\ disk'.l2 = disk.l2
               /\ DOMAIN disk.sst \subseteq DOMAIN disk'.sst]_vars

\* An insert that returned Ok found four ids in the L2 list and compacted;
\* the SSTable it had just flushed went into the new L2 file.
C35_Witness ==
  /\ last.op = "insert"
  /\ last.res = "Ok"
  /\ Len(lsm.l2_files) = L2CompactionThreshold + 2
  /\ lsm.memtable.id > MemtableStartId
  /\ disk.l2[lsm.l2_files[Len(lsm.l2_files)]] # Empty

\* s is a prefix of t.
IsPrefix(s, t) == Len(s) <= Len(t) /\ SubSeq(t, 1, Len(s)) = s

Holding(l, d, k) ==
  {id \in SeqToSet(l.sstables) : id \in DOMAIN d.sst /\ k \in DOMAIN d.sst[id]}

\* C37: when a compaction has written a new L2 file, every key whose record
\* in the highest-id consumed SSTable holding it is live is mapped by the
\* file to the value of that record, and the file has no key that none of
\* the consumed SSTables holds.
C37_NewestWinsInL2 ==
  [][(lsm'.l2_id = lsm.l2_id + 1 /\ lsm.l2_id \in DOMAIN disk'.l2) =>
       LET file == disk'.l2[lsm.l2_id]
       IN /\ \A k \in Keys :
               Holding(lsm, disk, k) # {} =>
                 LET newest == CHOOSE id \in Holding(lsm, disk, k) :
                                 \A other \in Holding(lsm, disk, k) : other <= id
                 IN disk.sst[newest][k] # None
                      => k \in DOMAIN file /\ file[k] = disk.sst[newest][k][1]
          /\ \A k \in DOMAIN file : Holding(lsm, disk, k) # {}]_vars

\* A compaction has just written an L2 file over two SSTables (now removed):
\* the WAL shows that a key was put twice, each put went to its own SSTable
\* (the first flushed by the insert, the second by a rotation), and the file
\* holds the second value.
C37_Witness ==
  /\ last.op = "force_compaction"
  /\ last.res = "Ok"
  /\ lsm.l2_files = <<0>>
  /\ lsm.memtable.id = MemtableStartId + 2
  /\ DOMAIN disk.sst = {}
  /\ \E k \in Keys :
       /\ Log(lsm.wal, disk) = <<Put(k, <<8, 9>>), Put(k, <<7>>)>>
       /\ disk.l2[0] = With(Empty, k, <<7>>)

\* C38: a delete of k that returns Ok appends one Delete entry of k to the
\* WAL (the size grows by the encoded length of the entry; what the active
\* segment's file and the buffer hold together grows by that entry) and puts
\* a tombstone for k in the memtable; the filter, the memtable's size and id,
\* the L1 and L2 id lists, the SSTables and L2 files, the active segment id
\* and closed_segments are unchanged, whatever the sizes.
C38_DeleteEffectAndFrame ==
  [][(last'.op = "delete" /\ last'.res = "Ok" /\ calls' # calls) =>
       LET k == last'.key[1]
           seg == lsm.wal.segment
       IN /\ lsm'.wal.current_size
               = lsm.wal.current_size + EncLen(Delete(k))
          /\ lsm'.wal.current_size > lsm.wal.current_size
          /\ lsm.wal.linked
               => disk'.wal[seg] \o lsm'.wal.buffer
                    = (disk.wal[seg] \o lsm.wal.buffer) \o <<Delete(k)>>
          /\ ~lsm.wal.linked
               => lsm'.wal.buffer \in {Append(lsm.wal.buffer, Delete(k)), <<>>}
          /\ \A id \in DOMAIN disk.wal \ {seg} :
               id \in DOMAIN disk'.wal /\ disk'.wal[id] = disk.wal[id]
          /\ DOMAIN disk'.wal = DOMAIN disk.wal
          /\ lsm'.memtable.tree = With(lsm.memtable.tree, k, None)
          /\ lsm'.memtable.approximate_size = lsm.memtable.approximate_size
          /\ lsm'.memtable.id = lsm.memtable.id
          /\ lsm'.bloom = lsm.bloom
          /\ lsm'.sstables = lsm.sstables
          /\ lsm'.l2_files = lsm.l2_files
          /\ lsm'.wal.segment = seg
          /\ lsm'.wal.closed_segments = lsm.wal.closed_segments
          /\ disk'.sst = disk.sst
          /\ disk'.l2 = disk.l2]_vars

\* A delete returned Ok and left the WAL at or above max_size, in the same
\* segment, with its tombstone over a value the memtable held.
C38_Witness ==
  /\ last.op = "delete"
  /\ last.res = "Ok"
  /\ lsm.wal.current_size >= WalMaxSize
  /\ lsm.wal.segment = WalStartId
  /\ lsm.memtable.approximate_size > 0
  /\ lsm.memtable.tree[last.key[1]] = None

\* C39: in every state another task can observe, the L1 id list is strictly
\* increasing (so without duplicates), every id in it is smaller than the
\* active memtable's id, and the file sstable-<id> of every id in it exists.
C39_L1ListMatchesFiles ==
  /\ \A i, j \in 1..Len(lsm.sstables) :
       i < j => lsm.sstables[i] < lsm.sstables[j]
  /\ \A i \in 1..Len(lsm.sstables) :
       /\ lsm.sstables[i] < lsm.memtable.id
       /\ lsm.sstables[i] \in DOMAIN disk.sst

====
